---- MODULE Spec2Model ----
(***************************************************************************)
(* The whiteboard storage/replay engine of janus-gateway (scene + page +   *)
(* per-page keyframe variant, src/unnamed/part_002).                       *)
(*                                                                         *)
(* The four append-only files are sequences of decoded records; a byte     *)
(* offset into the data file is the sum of the framed sizes of the records *)
(* before it.  The hash table of scenes is a function whose domain is the  *)
(* set of keys present.  A page slot that is still NULL is represented by  *)
(* the default page janus_whiteboard_get_page materialises on first touch  *)
(* (scale 1, no key frame): no code path tells the two apart.  Timestamps  *)
(* and the move_x/move_y part of a transform are copied through unchanged  *)
(* by the code and are left out.                                           *)
(***************************************************************************)
EXTENDS Integers, Sequences, FiniteSets, TLC

VARIABLES
    file,         \* <name>.data: the framed packages appended so far
    header_file,  \* <name>.head: the framed key frames appended so far
    scene_file,   \* <name>.scene: the framed scenes appended so far
    page_file,    \* <name>.page: the framed pages appended so far
    scenes,       \* whiteboard->scenes: scene index -> janus_scene
    cur_page,     \* whiteboard->cur_page (a copy by value)
    packages,     \* whiteboard->packages: the cache of the current page
    session,      \* "open" | "closed" | "freed" | "crashed"
    call,         \* the public function that has just returned, or "none"
    package,      \* the package that call decoded or built
    result,       \* the janus_whiteboard_result it handed to its caller
    ioerr,        \* whether an fwrite of that call failed
    failed,       \* how many calls have had an fwrite fail so far
    mutex,        \* whiteboard->mutex: 0 when free, else the holder
    tpc,          \* per thread: "idle" | "called" | "locked" | a step of free | "released"
    tpkg,         \* per thread: the function called and its package
    snap,         \* per thread: what the call read under the lock
    janus_oss_io, \* the storage backend oss_init loaded, or NULL
    remote,       \* the four objects of the session in remote storage
    oss_path,     \* the oss_path argument of the creation that has returned
    fetch         \* file -> whether read_data_to_file succeeded in that call

ossvars == <<janus_oss_io, remote, oss_path, fetch>>

vars == <<file, header_file, scene_file, page_file, scenes, cur_page, packages,
          session, call, package, result, ioerr, failed, mutex, tpc, tpkg, snap,
          janus_oss_io, remote, oss_path, fetch>>

----------------------------------------------------------------------------
\* KLDataPackageType
KLPackageType_None == -1
KLPackageType_DrawCommand == 0
KLPackageType_SwitchScenePage == 1
KLPackageType_CleanDraw == 2
KLPackageType_ScenePageData == 3
KLPackageType_KeyFrame == 4
KLPackageType_AddScene == 5
KLPackageType_SceneData == 6
KLPackageType_EnableUserDraw == 7
KLPackageType_DeleteScene == 8
KLPackageType_ModifyScene == 9
KLPackageType_SceneOrderChange == 10
KLPackageType_PageChange == 11

\* sizeof(size_t): the length prefix of every framed record
SizeofSizeT == 8

\* bounds of the model
MaxData == 3
MaxSceneLog == 2
MaxFailures == 1

----------------------------------------------------------------------------
\* Optional values (a C pointer that may be NULL) are sequences of length <= 1.
NULL == <<>>
Some(x) == <<x>>

\* Pb__Package as save_package sees it after pb__package__unpack.
Pkg(type, scene, page, cmd, page_info, newscene) ==
    [type |-> type, scene |-> scene, page |-> page, cmd |-> cmd,
     page_info |-> page_info, newscene |-> newscene]

\* Pb__Page
PbPage(scene, page, angle, scale) ==
    [scene |-> scene, page |-> page, angle |-> angle, scale |-> scale]

\* Pb__Scene
PbScene(index, resource, pagecount) ==
    [index |-> index, resource |-> resource, pagecount |-> pagecount]

\* janus_page, as g_malloc0 + scale = 1 leaves it
DefaultPage == [angle |-> 0, scale |-> 1, key_frame |-> NULL]

\* janus_scene with every page slot untouched
NewScene(index, source_url, page_num) ==
    [index |-> index, source_url |-> source_url, page_num |-> page_num,
     pages |-> [p \in 0..(page_num - 1) |-> DefaultPage]]

\* The in-memory and on-disk state of one whiteboard, as one value.
WB ==
    [file |-> file, header_file |-> header_file, scene_file |-> scene_file,
     page_file |-> page_file, scenes |-> scenes, cur_page |-> cur_page,
     packages |-> packages]

\* janus_whiteboard_result initialised as every public function does
NewResult ==
    [ret |-> -1, package_type |-> KLPackageType_None,
     command_buf |-> NULL, keyframe_buf |-> NULL]

----------------------------------------------------------------------------
\* MAX_PACKET_CAPACITY of whiteboard.h
MAX_PACKET_CAPACITY == 100000

\* a command whose encoding fills a package up to MAX_PACKET_CAPACITY bytes;
\* every other command takes one byte
LargeCommand == 9
CommandSize(c) == IF c = LargeCommand THEN MAX_PACKET_CAPACITY - 2 ELSE 1

RECURSIVE CmdBytes(_)
CmdBytes(cmd) == IF cmd = <<>> THEN 0 ELSE CommandSize(Head(cmd)) + CmdBytes(Tail(cmd))

\* pb__package__get_packed_size: every package carries a non-zero timestamp,
\* so the size is positive and grows with the commands.
PackedSize(pkg) == 2 + CmdBytes(pkg.cmd)

\* bytes one framed package takes in the data file
FrameSize(pkg) == SizeofSizeT + PackedSize(pkg)

RECURSIVE FileSize(_)
\* ftell(file) after fseek(file, 0, SEEK_END)
FileSize(f) == IF f = <<>> THEN 0 ELSE FrameSize(Head(f)) + FileSize(Tail(f))

RECURSIVE SeekRead(_, _)
\* fseek(file, offset, SEEK_SET) followed by reading records to the end: the
\* records that start at offset.  An offset inside a record or past the end
\* yields bytes that do not frame a package, and the read loop stops at once.
SeekRead(f, offset) ==
    IF offset = 0 THEN f
    ELSE IF f = <<>> \/ offset < FrameSize(Head(f)) THEN <<>>
    ELSE SeekRead(Tail(f), offset - FrameSize(Head(f)))

janus_whiteboard_get_scene(w, scene_index) ==
    IF scene_index \in DOMAIN w.scenes THEN Some(w.scenes[scene_index]) ELSE NULL

\* whether janus_whiteboard_get_page returns a page (not NULL)
HasPage(w, scene, page) ==
    /\ scene \in DOMAIN w.scenes
    /\ w.scenes[scene].page_num > 0
    /\ page >= 0
    /\ page < w.scenes[scene].page_num

janus_whiteboard_get_page(w, scene, page) ==
    IF HasPage(w, scene, page) THEN Some(w.scenes[scene].pages[page]) ELSE NULL

janus_whiteboard_package_check(w, pkg) ==
    LET scene_num == Cardinality(DOMAIN w.scenes)
    IN  IF pkg.scene < 0 \/ pkg.scene >= scene_num THEN FALSE
        ELSE IF \/ pkg.page < 0
                \/ pkg.scene \notin DOMAIN w.scenes
                \/ pkg.page >= w.scenes[pkg.scene].page_num THEN FALSE
        ELSE TRUE

\* janus_whiteboard_set_page without its assignments to angle and scale
SetPageKeepsTransform(w, page_info) ==
    w

janus_whiteboard_set_page(w, page_info) ==
    IF HasPage(w, page_info.scene, page_info.page)
    THEN [w EXCEPT !.scenes[page_info.scene].pages[page_info.page] =
                       [@ EXCEPT !.angle = page_info.angle, !.scale = page_info.scale]]
    ELSE w

----------------------------------------------------------------------------
\* janus_whiteboard_add_pkt_to_packages_l without its CleanDraw branch: the
\* CleanDraw package is kept as one more package
AddPktKeepsCleanDraw(pkgs, dst_pkg) ==
    IF dst_pkg.type = KLPackageType_KeyFrame THEN <<dst_pkg>>
    ELSE IF dst_pkg.type = KLPackageType_SwitchScenePage
         THEN IF Len(pkgs) = 0 THEN <<dst_pkg>> ELSE pkgs
    ELSE IF dst_pkg.type # KLPackageType_ScenePageData THEN Append(pkgs, dst_pkg)
    ELSE pkgs

\* janus_whiteboard_add_pkt_to_packages_l without its SwitchScenePage branch:
\* a SwitchScenePage package is kept wherever it arrives
AddPktKeepsEverySwitch(pkgs, dst_pkg) ==
    IF dst_pkg.type = KLPackageType_CleanDraw THEN <<>>
    ELSE IF dst_pkg.type = KLPackageType_KeyFrame THEN <<dst_pkg>>
    ELSE IF dst_pkg.type # KLPackageType_ScenePageData THEN Append(pkgs, dst_pkg)
    ELSE pkgs

janus_whiteboard_add_pkt_to_packages_l(pkgs, dst_pkg) ==
    IF dst_pkg.type = KLPackageType_CleanDraw THEN <<>>
    ELSE IF dst_pkg.type = KLPackageType_KeyFrame THEN <<dst_pkg>>
    ELSE IF dst_pkg.type = KLPackageType_SwitchScenePage
         THEN IF Len(pkgs) = 0 THEN <<dst_pkg>> ELSE pkgs
    ELSE IF dst_pkg.type # KLPackageType_ScenePageData THEN Append(pkgs, dst_pkg)
    ELSE pkgs

RECURSIVE ReadRecords(_)
\* the records janus_whiteboard_read_packet_from_file hands to a read loop
\* before the loop breaks: a length prefix that is 0 or not below
\* MAX_PACKET_CAPACITY comes back with a NULL buffer, and the loop stops there
ReadRecords(f) ==
    IF f = <<>> THEN <<>>
    ELSE IF PackedSize(Head(f)) > 0 /\ PackedSize(Head(f)) < MAX_PACKET_CAPACITY
         THEN <<Head(f)>> \o ReadRecords(Tail(f))
    ELSE <<>>

RECURSIVE ReduceRecords(_, _, _, _)
\* the read loop of janus_whiteboard_scene_page_data_l over decoded records
ReduceRecords(records, scene, page, pkgs) ==
    IF records = <<>> THEN pkgs
    ELSE LET pkt == Head(records)
         IN  ReduceRecords(Tail(records), scene, page,
                 IF pkt.scene = scene /\ pkt.page = page
                 THEN janus_whiteboard_add_pkt_to_packages_l(pkgs, pkt)
                 ELSE pkgs)

\* janus_whiteboard_scene_page_data_l filling the session's own array: the
\* records it reads are reduced onto the cache
ScanOntoCache(w, scene, page, pkgs) ==
    IF ~HasPage(w, scene, page) THEN [packages |-> pkgs, ret |-> -1]
    ELSE LET page_data == w.scenes[scene].pages[page]
             package_data_offset ==
                 IF page_data.key_frame # NULL THEN page_data.key_frame[1].offset ELSE 0
         IN  [packages |-> ReduceRecords(ReadRecords(SeekRead(w.file, package_data_offset)),
                                         scene, page, w.packages),
              ret |-> -1]

\* returns the filled array and the function's return value
janus_whiteboard_scene_page_data_l(w, scene, page, pkgs) ==
    IF ~HasPage(w, scene, page) THEN [packages |-> pkgs, ret |-> -1]
    ELSE LET page_data == w.scenes[scene].pages[page]
             package_data_offset ==
                 IF page_data.key_frame # NULL THEN page_data.key_frame[1].offset ELSE 0
         IN  [packages |-> ReduceRecords(ReadRecords(SeekRead(w.file, package_data_offset)),
                                         scene, page, pkgs),
              ret |-> -1]

RECURSIVE ConcatCmd(_)
ConcatCmd(pkgs) == IF pkgs = <<>> THEN <<>> ELSE Head(pkgs).cmd \o ConcatCmd(Tail(pkgs))

RECURSIVE LastPageInfo(_)
LastPageInfo(pkgs) ==
    IF pkgs = <<>> THEN NULL
    ELSE IF pkgs[Len(pkgs)].page_info # NULL THEN pkgs[Len(pkgs)].page_info
    ELSE LastPageInfo(SubSeq(pkgs, 1, Len(pkgs) - 1))

\* janus_whiteboard_packed_data_l copying the commands of the last package
\* only instead of accumulating those of every package
PackedDataLastOnly(pkgs, res) ==
    LET out_pkg ==
            IF Len(pkgs) = 0
            THEN Pkg(KLPackageType_CleanDraw, 0, 0, <<>>, NULL, NULL)
            ELSE Pkg(KLPackageType_DrawCommand, pkgs[1].scene, pkgs[1].page,
                     pkgs[Len(pkgs)].cmd, LastPageInfo(pkgs), NULL)
    IN  [res EXCEPT
            !.command_buf = Some(out_pkg),
            !.keyframe_buf = IF Len(pkgs) > 0 /\ pkgs[1].type = KLPackageType_KeyFrame
                             THEN Some(pkgs[1]) ELSE @]

\* janus_whiteboard_packed_data_l without its key frame part: the first
\* package is never packed on its own
PackedDataWithoutKeyFrame(pkgs, res) ==
    LET out_pkg ==
            IF Len(pkgs) = 0
            THEN Pkg(KLPackageType_CleanDraw, 0, 0, <<>>, NULL, NULL)
            ELSE Pkg(KLPackageType_DrawCommand, pkgs[1].scene, pkgs[1].page,
                     ConcatCmd(pkgs), LastPageInfo(pkgs), NULL)
    IN  [res EXCEPT !.command_buf = Some(out_pkg)]

janus_whiteboard_packed_data_l(pkgs, res) ==
    LET out_pkg ==
            IF Len(pkgs) = 0
            THEN Pkg(KLPackageType_CleanDraw, 0, 0, <<>>, NULL, NULL)
            ELSE Pkg(KLPackageType_DrawCommand, pkgs[1].scene, pkgs[1].page,
                     ConcatCmd(pkgs), LastPageInfo(pkgs), NULL)
    IN  [res EXCEPT
            !.command_buf = Some(out_pkg),
            !.keyframe_buf = IF Len(pkgs) > 0 /\ pkgs[1].type = KLPackageType_KeyFrame
                             THEN Some(pkgs[1]) ELSE @]

----------------------------------------------------------------------------
\* What the writes of one call do: TRUE where the fwrite succeeds.
IoAllOk == [data |-> TRUE, head |-> TRUE, scene |-> TRUE, page |-> TRUE]
IoOutcomes == [data : BOOLEAN, head : BOOLEAN, scene : BOOLEAN, page : BOOLEAN]

\* fwrite(&length) + janus_whiteboard_write_packet_to_file_l on a file opened
\* "ab+": the record lands at the end, or the write fails; a failed write is
\* taken to leave no readable record behind.
WriteRecord(f, rec, ok) == IF ok THEN Append(f, rec) ELSE f

\* pb__scene__get_packed_size: fields left at their default take no bytes
ScenePackedSize(s) ==
    (IF s.index # 0 THEN 2 ELSE 0) + (IF s.pagecount # 0 THEN 2 ELSE 0)
    + (IF s.resource # "" THEN 3 ELSE 0)

\* g_hash_table_insert: a scene already stored under the key is destroyed
HashInsert(tbl, key, value) ==
    [k \in (DOMAIN tbl) \cup {key} |-> IF k = key THEN value ELSE tbl[k]]

janus_whiteboard_add_scene_l(w, newScene, io) ==
    LET scene_num == Cardinality(DOMAIN w.scenes)
        index == IF newScene.index = -1 THEN scene_num ELSE newScene.index
        ns == [newScene EXCEPT !.index = index]
        j_scene == NewScene(index, newScene.resource, newScene.pagecount)
        w1 == [w EXCEPT !.scenes = HashInsert(@, index, j_scene)]
    IN  IF index > scene_num
        THEN [w |-> w, ret |-> -1, newScene |-> ns, ioerr |-> FALSE]
        ELSE IF index \in DOMAIN w.scenes
                /\ w.scenes[index].source_url = newScene.resource
        THEN [w |-> w, ret |-> -1, newScene |-> ns, ioerr |-> FALSE]
        ELSE IF ScenePackedSize(ns) = 0
        THEN [w |-> w1, ret |-> -1, newScene |-> ns, ioerr |-> FALSE]
        ELSE IF ~io.scene
        THEN [w |-> w1, ret |-> -1, newScene |-> ns, ioerr |-> TRUE]
        ELSE [w |-> [w1 EXCEPT !.scene_file = WriteRecord(@, ns, TRUE)],
              ret |-> 1, newScene |-> ns, ioerr |-> FALSE]

\* janus_whiteboard_have_keyframe_l answering that the page has no key frame
\* whatever the page holds
HaveKeyframeNever(w, scene, page, ub) ==
    IF scene \in DOMAIN w.scenes /\ page >= 0 /\ page >= w.scenes[scene].page_num
    THEN ub
    ELSE "false"

\* The read of scene_data->pages[page] is checked against nothing but
\* page >= 0: past the end of the array (or with no array at all) the value
\* read is whatever lies there, so the call answers either way or faults.
janus_whiteboard_have_keyframe_l(w, scene, page, ub) ==
    IF scene \in DOMAIN w.scenes /\ page >= 0
    THEN IF page < w.scenes[scene].page_num
         THEN IF w.scenes[scene].pages[page].key_frame # NULL THEN "true" ELSE "false"
         ELSE ub
    ELSE "false"

\* the outcomes the unchecked read can have for this package
HaveKeyframeOutcomes(w, pkg) ==
    IF /\ pkg.scene \in DOMAIN w.scenes
       /\ pkg.page >= 0
       /\ pkg.page >= w.scenes[pkg.scene].page_num
    THEN {"false", "true", "crash"}
    ELSE {"false"}

\* janus_whiteboard_on_receive_keyframe_l with the offset taken once the
\* length prefix of the coming record is counted: the key frame then points
\* inside the record instead of at its start
KeyFrameOffsetPastPrefix(w, pkg, io) ==
    IF ~HasPage(w, pkg.scene, pkg.page) THEN [w |-> w, ret |-> -1, ioerr |-> FALSE]
    ELSE LET key_frame == [scene |-> pkg.scene, page |-> pkg.page,
                           offset |-> FileSize(w.file) + SizeofSizeT]
             w1 == [w EXCEPT !.scenes[pkg.scene].pages[pkg.page].key_frame =
                                 Some(key_frame)]
         IN  IF io.head
             THEN [w |-> [w1 EXCEPT !.header_file = WriteRecord(@, key_frame, TRUE)],
                   ret |-> 0, ioerr |-> FALSE]
             ELSE [w |-> w1, ret |-> -1, ioerr |-> TRUE]

\* janus_whiteboard_on_receive_keyframe_l leaving alone a page that already
\* has a key frame: the first key frame is retained, the later one is dropped
KeyFrameKeptIfPresent(w, pkg, io) ==
    IF ~HasPage(w, pkg.scene, pkg.page) THEN [w |-> w, ret |-> -1, ioerr |-> FALSE]
    ELSE IF w.scenes[pkg.scene].pages[pkg.page].key_frame # NULL
    THEN [w |-> w, ret |-> 0, ioerr |-> FALSE]
    ELSE LET key_frame == [scene |-> pkg.scene, page |-> pkg.page,
                           offset |-> FileSize(w.file)]
             w1 == [w EXCEPT !.scenes[pkg.scene].pages[pkg.page].key_frame =
                                 Some(key_frame)]
         IN  IF io.head
             THEN [w |-> [w1 EXCEPT !.header_file = WriteRecord(@, key_frame, TRUE)],
                   ret |-> 0, ioerr |-> FALSE]
             ELSE [w |-> w1, ret |-> -1, ioerr |-> TRUE]

\* janus_whiteboard_on_receive_keyframe_l storing the packed size of the
\* package where the position of the data file's end belongs
KeyFrameOffsetIsLength(w, pkg, io) ==
    IF ~HasPage(w, pkg.scene, pkg.page) THEN [w |-> w, ret |-> -1, ioerr |-> FALSE]
    ELSE LET key_frame == [scene |-> pkg.scene, page |-> pkg.page,
                           offset |-> PackedSize(pkg)]
             w1 == [w EXCEPT !.scenes[pkg.scene].pages[pkg.page].key_frame =
                                 Some(key_frame)]
         IN  IF io.head
             THEN [w |-> [w1 EXCEPT !.header_file = WriteRecord(@, key_frame, TRUE)],
                   ret |-> 0, ioerr |-> FALSE]
             ELSE [w |-> w1, ret |-> -1, ioerr |-> TRUE]

janus_whiteboard_on_receive_keyframe_l(w, pkg, io) ==
    IF ~HasPage(w, pkg.scene, pkg.page) THEN [w |-> w, ret |-> -1, ioerr |-> FALSE]
    ELSE LET key_frame == [scene |-> pkg.scene, page |-> pkg.page,
                           offset |-> FileSize(w.file)]
             w1 == [w EXCEPT !.scenes[pkg.scene].pages[pkg.page].key_frame =
                                 Some(key_frame)]
         IN  IF io.head
             THEN [w |-> [w1 EXCEPT !.header_file = WriteRecord(@, key_frame, TRUE)],
                   ret |-> 0, ioerr |-> FALSE]
             ELSE [w |-> w1, ret |-> -1, ioerr |-> TRUE]

\* callers reach this only after janus_whiteboard_package_check succeeded
janus_whiteboard_on_receive_switch_scene_l(w, pkg, io) ==
    LET scene_num == Cardinality(DOMAIN w.scenes)
        target_page == w.scenes[pkg.scene].pages[pkg.page]
        nextPage == IF pkg.page_info # NULL THEN pkg.page_info[1]
                    ELSE PbPage(pkg.scene, pkg.page, target_page.angle, target_page.scale)
    IN  IF pkg.scene < 0 \/ pkg.scene >= scene_num
        THEN [w |-> w, ret |-> -1, ioerr |-> FALSE]
        ELSE IF io.page
        THEN [w |-> [w EXCEPT !.page_file = WriteRecord(@, nextPage, TRUE)],
              ret |-> 0, ioerr |-> FALSE]
        ELSE [w |-> w, ret |-> -1, ioerr |-> TRUE]

\* the janus_page a valid (scene, page) names, copied by value
PageCopy(w, scene, page) ==
    [scene |-> scene, page |-> page,
     angle |-> w.scenes[scene].pages[page].angle,
     scale |-> w.scenes[scene].pages[page].scale,
     key_frame |-> w.scenes[scene].pages[page].key_frame]

----------------------------------------------------------------------------
\* One way out of a public function: the state it leaves, what it returns,
\* and whether it released the mutex on the way (crashed: the process died
\* inside the call).
Return(w, res, pkg, ioe) ==
    [w |-> w, result |-> res, package |-> pkg, ioerr |-> ioe,
     crashed |-> FALSE, unlocked |-> TRUE]

Fault(w, pkg, ioe) ==
    [w |-> w, result |-> NewResult, package |-> pkg, ioerr |-> ioe,
     crashed |-> TRUE, unlocked |-> FALSE]

\* the type test of janus_whiteboard_save_package without KeyFrame in it
UnsupportedTypesButKeyFrame ==
    {KLPackageType_None, KLPackageType_EnableUserDraw,
     KLPackageType_DeleteScene, KLPackageType_ModifyScene,
     KLPackageType_SceneOrderChange}

UnsupportedTypes ==
    {KLPackageType_None, KLPackageType_KeyFrame, KLPackageType_EnableUserDraw,
     KLPackageType_DeleteScene, KLPackageType_ModifyScene,
     KLPackageType_SceneOrderChange}

\* the same path ending with ret = 1, the code that announces data to return
SaveToFileAnswersOne(w, pkg, ub, io, ioe) ==
    LET isKey == pkg.type \in {KLPackageType_KeyFrame, KLPackageType_CleanDraw}
        hk == janus_whiteboard_have_keyframe_l(w, pkg.scene, pkg.page, ub)
        faults == ~isKey /\ pkg.type # KLPackageType_SwitchScenePage
                  /\ pkg.page >= 0 /\ hk = "crash"
        needKeyframe ==
            IF isKey THEN TRUE
            ELSE IF pkg.type = KLPackageType_SwitchScenePage THEN Len(w.packages) = 0
            ELSE pkg.page >= 0 /\ hk = "false"
        k == IF needKeyframe THEN janus_whiteboard_on_receive_keyframe_l(w, pkg, io)
             ELSE [w |-> w, ret |-> 0, ioerr |-> FALSE]
        w2 == [k.w EXCEPT !.file = WriteRecord(@, pkg, io.data)]
        w3 == IF pkg.scene = w2.cur_page.scene /\ pkg.page = w2.cur_page.page
              THEN [w2 EXCEPT !.packages =
                                  janus_whiteboard_add_pkt_to_packages_l(@, pkg)]
              ELSE w2
    IN  IF isKey /\ ~janus_whiteboard_package_check(w, pkg)
        THEN Return(w, NewResult, pkg, ioe)
        ELSE IF faults THEN Fault(w, pkg, ioe)
        ELSE Return(w3, [NewResult EXCEPT !.ret = 1], pkg,
                    ioe \/ k.ioerr \/ ~io.data)

\* the same path without the comparison with the current page: every
\* package written is reduced onto the cache
SaveToFileCachesEveryPackage(w, pkg, ub, io, ioe) ==
    LET isKey == pkg.type \in {KLPackageType_KeyFrame, KLPackageType_CleanDraw}
        hk == janus_whiteboard_have_keyframe_l(w, pkg.scene, pkg.page, ub)
        faults == ~isKey /\ pkg.type # KLPackageType_SwitchScenePage
                  /\ pkg.page >= 0 /\ hk = "crash"
        needKeyframe ==
            IF isKey THEN TRUE
            ELSE IF pkg.type = KLPackageType_SwitchScenePage THEN Len(w.packages) = 0
            ELSE pkg.page >= 0 /\ hk = "false"
        k == IF needKeyframe THEN janus_whiteboard_on_receive_keyframe_l(w, pkg, io)
             ELSE [w |-> w, ret |-> 0, ioerr |-> FALSE]
        w2 == [k.w EXCEPT !.file = WriteRecord(@, pkg, io.data)]
        w3 == [w2 EXCEPT !.packages = janus_whiteboard_add_pkt_to_packages_l(@, pkg)]
    IN  IF isKey /\ ~janus_whiteboard_package_check(w, pkg)
        THEN Return(w, NewResult, pkg, ioe)
        ELSE IF faults THEN Fault(w, pkg, ioe)
        ELSE Return(w3, [NewResult EXCEPT !.ret = 0], pkg,
                    ioe \/ k.ioerr \/ ~io.data)

\* janus_whiteboard_save_package from "关键帧保存" to its end: the key-frame
\* decision, the append to the data file and the update of the cache.
SaveToFile(w, pkg, ub, io, ioe) ==
    LET isKey == pkg.type \in {KLPackageType_KeyFrame, KLPackageType_CleanDraw}
        hk == janus_whiteboard_have_keyframe_l(w, pkg.scene, pkg.page, ub)
        faults == ~isKey /\ pkg.type # KLPackageType_SwitchScenePage
                  /\ pkg.page >= 0 /\ hk = "crash"
        needKeyframe ==
            IF isKey THEN TRUE
            ELSE IF pkg.type = KLPackageType_SwitchScenePage THEN Len(w.packages) = 0
            ELSE pkg.page >= 0 /\ hk = "false"
        k == IF needKeyframe THEN janus_whiteboard_on_receive_keyframe_l(w, pkg, io)
             ELSE [w |-> w, ret |-> 0, ioerr |-> FALSE]
        w2 == [k.w EXCEPT !.file = WriteRecord(@, pkg, io.data)]
        w3 == IF pkg.scene = w2.cur_page.scene /\ pkg.page = w2.cur_page.page
              THEN [w2 EXCEPT !.packages =
                                  janus_whiteboard_add_pkt_to_packages_l(@, pkg)]
              ELSE w2
    IN  IF isKey /\ ~janus_whiteboard_package_check(w, pkg)
        THEN Return(w, NewResult, pkg, ioe)
        ELSE IF faults THEN Fault(w, pkg, ioe)
        ELSE Return(w3, [NewResult EXCEPT !.ret = 0], pkg,
                    ioe \/ k.ioerr \/ ~io.data)

\* the SceneData branch with the request stored like a drawing package: it
\* is appended to the data file and, named for the current page, cached
SceneDataLogged(w, pkg) ==
    LET rec == [pkg EXCEPT !.page = w.cur_page.page, !.scene = w.cur_page.scene]
    IN  IF Cardinality(DOMAIN w.scenes) > 0
        THEN Return([w EXCEPT !.file = WriteRecord(@, rec, TRUE),
                              !.packages = Append(@, rec)],
                    [NewResult EXCEPT
                        !.ret = 1,
                        !.command_buf = Some(rec),
                        !.package_type = KLPackageType_SceneData],
                    pkg, FALSE)
        ELSE Return(w, [NewResult EXCEPT !.package_type = KLPackageType_SceneData],
                    pkg, FALSE)

\* the SceneData branch: the request comes back with the current scene and
\* page filled in, or ret = -1 when there is no scene
AnswerSceneData(w, pkg) ==
    IF Cardinality(DOMAIN w.scenes) > 0
    THEN Return(w, [NewResult EXCEPT
                       !.ret = 1,
                       !.command_buf = Some([pkg EXCEPT !.page = w.cur_page.page,
                                                        !.scene = w.cur_page.scene]),
                       !.package_type = KLPackageType_SceneData],
                pkg, FALSE)
    ELSE Return(w, [NewResult EXCEPT !.package_type = KLPackageType_SceneData],
                pkg, FALSE)

\* a switch to the page that is current, answered with the page record
\* written all the same
SwitchToCurrentLogged(w, pkg) ==
    Return([w EXCEPT !.page_file =
                         WriteRecord(@, PbPage(pkg.scene, pkg.page, w.cur_page.angle,
                                               w.cur_page.scale), TRUE)],
           [NewResult EXCEPT !.ret = 0], pkg, FALSE)

\* the SwitchScenePage branch when the package names the current page: the
\* function returns before it checks or writes anything
SwitchToCurrent(w, pkg) ==
    Return(w, [NewResult EXCEPT !.ret = 0], pkg, FALSE)

janus_whiteboard_save_package(w, pkg, ub, io) ==
    IF pkg.type \in UnsupportedTypes THEN Return(w, NewResult, pkg, FALSE)
    ELSE IF pkg.type = KLPackageType_AddScene THEN
        LET a == janus_whiteboard_add_scene_l(w, pkg.newscene[1], io)
            out == [pkg EXCEPT !.newscene = Some(a.newScene)]
        IN  Return(a.w, [NewResult EXCEPT !.ret = a.ret,
                                          !.command_buf = Some(out),
                                          !.package_type = KLPackageType_AddScene],
                   out, a.ioerr)
    ELSE IF pkg.type = KLPackageType_SceneData THEN AnswerSceneData(w, pkg)
    ELSE IF pkg.type = KLPackageType_SwitchScenePage THEN
        IF pkg.scene = w.cur_page.scene /\ pkg.page = w.cur_page.page
        THEN SwitchToCurrent(w, pkg)
        ELSE IF ~janus_whiteboard_package_check(w, pkg)
        THEN Return(w, NewResult, pkg, FALSE)
        ELSE LET s == janus_whiteboard_on_receive_switch_scene_l(w, pkg, io)
                 d == janus_whiteboard_scene_page_data_l(s.w, pkg.scene, pkg.page, <<>>)
                 w2 == [s.w EXCEPT !.packages = d.packages,
                                   !.cur_page = PageCopy(s.w, pkg.scene, pkg.page)]
             IN  SaveToFile(w2, pkg, ub, io, s.ioerr)
    ELSE IF pkg.type = KLPackageType_PageChange THEN
        IF ~janus_whiteboard_package_check(w, pkg)
        THEN Return(w, NewResult, pkg, FALSE)
        ELSE IF pkg.page_info = NULL THEN Return(w, NewResult, pkg, FALSE)
        ELSE LET info == [pkg.page_info[1] EXCEPT !.scene = pkg.scene, !.page = pkg.page]
                 pkg2 == [pkg EXCEPT !.page_info = Some(info)]
                 s == janus_whiteboard_on_receive_switch_scene_l(w, pkg2, io)
                 w1 == janus_whiteboard_set_page(s.w, info)
                 w2 == IF w1.cur_page.scene = info.scene /\ w1.cur_page.page = info.page
                       THEN [w1 EXCEPT !.cur_page = PageCopy(w1, info.scene, info.page)]
                       ELSE w1
             IN  SaveToFile(w2, pkg2, ub, io, s.ioerr)
    ELSE IF pkg.type = KLPackageType_CleanDraw THEN
        IF ~janus_whiteboard_package_check(w, pkg)
        THEN Return(w, NewResult, pkg, FALSE)
        ELSE LET w1 == IF w.cur_page.scene = pkg.scene /\ w.cur_page.page = pkg.page
                       THEN [w EXCEPT !.packages = <<>>]
                       ELSE w
             IN  SaveToFile(w1, pkg, ub, io, FALSE)
    ELSE IF pkg.type = KLPackageType_ScenePageData THEN
        LET pkg2 == IF pkg.scene < 0 \/ pkg.page < 0
                    THEN [pkg EXCEPT !.scene = w.cur_page.scene, !.page = w.cur_page.page]
                    ELSE pkg
        IN  IF ~janus_whiteboard_package_check(w, pkg2)
            THEN Return(w, NewResult, pkg2, FALSE)
            ELSE IF pkg2.scene = w.cur_page.scene /\ pkg2.page = w.cur_page.page
            THEN Return(w, [janus_whiteboard_packed_data_l(w.packages, NewResult)
                               EXCEPT !.ret = 1], pkg2, FALSE)
            ELSE LET d == janus_whiteboard_scene_page_data_l(w, pkg2.scene, pkg2.page, <<>>)
                 IN  Return(w, [janus_whiteboard_packed_data_l(d.packages, NewResult)
                                   EXCEPT !.ret = 1], pkg2, FALSE)
    ELSE SaveToFile(w, pkg, ub, io, FALSE)

\* the public janus_whiteboard_add_scene; pkg is the package it builds from
\* its arguments (package_type, resource, page_count, index)
janus_whiteboard_add_scene(w, pkg, io) ==
    IF pkg.newscene[1].pagecount <= 0 THEN Return(w, NewResult, pkg, FALSE)
    ELSE LET a == janus_whiteboard_add_scene_l(w, pkg.newscene[1], io)
             out == [pkg EXCEPT !.newscene = Some(a.newScene)]
         IN  IF a.ret <= 0
             THEN Return(a.w, [NewResult EXCEPT !.ret = a.ret], out, a.ioerr)
             ELSE Return(a.w, [NewResult EXCEPT
                                  !.ret = a.newScene.index,
                                  !.package_type = KLPackageType_AddScene,
                                  !.command_buf = Some(out)],
                         out, a.ioerr)

----------------------------------------------------------------------------
\* Recovery: janus_whiteboard_create on the files a former session left.

EmptyTable == [k \in {} |-> NULL]

\* whiteboard->cur_page as g_malloc0 leaves it
ZeroPage == [scene |-> 0, page |-> 0, angle |-> 0, scale |-> 0, key_frame |-> NULL]

\* What a log can hold besides records written by this program.  The reader
\* janus_whiteboard_read_packet_from_file takes a length prefix and, when it
\* is above 0 and below MAX_PACKET_CAPACITY, that many bytes of body.
\* Undecodable: a body of the announced length that pb__*__unpack refuses.
\* ZeroPrefix: a length prefix 0, with no body.  Oversize(body): a length
\* prefix at or above MAX_PACKET_CAPACITY; the reader does not skip what
\* follows the prefix, and body is what those bytes read as framed records.
Undecodable == [corrupt |-> "undecodable"]
ZeroPrefix == [corrupt |-> "zero"]
Oversize(body) == [corrupt |-> "oversize", body |-> body]

IsCorrupt(r) == "corrupt" \in DOMAIN r

RECURSIVE ReadStream(_)
\* the buffers that successive calls of janus_whiteboard_read_packet_from_file
\* hand to a recovery loop, the calls that return a NULL buffer (which every
\* loop answers with continue) left out
ReadStream(log) ==
    IF log = <<>> THEN <<>>
    ELSE LET r == Head(log)
         IN  IF ~IsCorrupt(r) \/ r.corrupt = "undecodable"
             THEN <<r>> \o ReadStream(Tail(log))
             ELSE IF r.corrupt = "zero" THEN ReadStream(Tail(log))
             ELSE ReadStream(r.body \o Tail(log))

\* the buffers of a stream that unpack
Decoded(stream) == SelectSeq(stream, LAMBDA r : ~IsCorrupt(r))

RECURSIVE LoadScenes(_, _)
\* the scene loop of janus_whiteboard_init_scene_from_file_l
LoadScenes(recs, tbl) ==
    IF recs = <<>> THEN tbl
    ELSE LoadScenes(Tail(recs),
                    HashInsert(tbl, Head(recs).index,
                               NewScene(Head(recs).index, Head(recs).resource,
                                        Head(recs).pagecount)))

RECURSIVE LoadPages(_, _, _)
\* the page loop of janus_whiteboard_init_scene_from_file_l.  st.status is
\* "ok", "fail" (the function returned -1) or "crash".  A record whose page
\* lies outside its scene's array makes the loop read and write past the
\* array: it faults, or it goes on with cur_page taken from the record.
LoadPages(recs, st, ub) ==
    IF recs = <<>> \/ st.status # "ok" THEN st
    ELSE LET tmp_page == Head(recs)
             w == [scenes |-> st.scenes]
             copy == [scene |-> tmp_page.scene, page |-> tmp_page.page,
                      angle |-> tmp_page.angle, scale |-> tmp_page.scale,
                      key_frame |-> NULL]
         IN  IF IsCorrupt(tmp_page) THEN [st EXCEPT !.status = "fail"]
             ELSE IF tmp_page.scene \notin DOMAIN st.scenes
             THEN [st EXCEPT !.status = "fail"]
             ELSE IF ~HasPage(w, tmp_page.scene, tmp_page.page)
             THEN IF ub = "crash" THEN [st EXCEPT !.status = "crash"]
                  ELSE LoadPages(Tail(recs), [st EXCEPT !.cur_page = copy], ub)
             ELSE LoadPages(Tail(recs),
                            [st EXCEPT
                                !.scenes = janus_whiteboard_set_page(w, tmp_page).scenes,
                                !.cur_page = copy],
                            ub)

\* whether some record makes the page loop leave its array
PageLoopOutcomes(scene_recs, page_recs) ==
    LET tbl == LoadScenes(Decoded(ReadStream(scene_recs)), EmptyTable)
        pages == Decoded(ReadStream(page_recs))
    IN  IF \E i \in 1..Len(pages) :
               /\ pages[i].scene \in DOMAIN tbl
               /\ ~HasPage([scenes |-> tbl], pages[i].scene, pages[i].page)
        THEN {"crash", "goes on"}
        ELSE {"goes on"}

RECURSIVE LoadKeyframesFirstWins(_, _)
\* the header loop keeping the first key frame read for a page
LoadKeyframesFirstWins(recs, tbl) ==
    IF recs = <<>> THEN tbl
    ELSE LET kf == Head(recs)
         IN  LoadKeyframesFirstWins(Tail(recs),
                 IF IsCorrupt(kf) THEN tbl
                 ELSE IF /\ HasPage([scenes |-> tbl], kf.scene, kf.page)
                         /\ tbl[kf.scene].pages[kf.page].key_frame = NULL
                 THEN [tbl EXCEPT ![kf.scene].pages[kf.page].key_frame = Some(kf)]
                 ELSE tbl)

RECURSIVE LoadKeyframes(_, _)
\* the header loop of janus_whiteboard_parse_or_create_header_l
LoadKeyframes(recs, tbl) ==
    IF recs = <<>> THEN tbl
    ELSE LET kf == Head(recs)
         IN  LoadKeyframes(Tail(recs),
                 IF IsCorrupt(kf) THEN tbl
                 ELSE IF HasPage([scenes |-> tbl], kf.scene, kf.page)
                 THEN [tbl EXCEPT ![kf.scene].pages[kf.page].key_frame = Some(kf)]
                 ELSE tbl)

\* janus_whiteboard_parse_or_create_header_l then the cache load of
\* janus_whiteboard_create; w carries the four files
janus_whiteboard_create(w, ub) ==
    LET scene_stream == ReadStream(w.scene_file)
        st == IF \E i \in 1..Len(scene_stream) : IsCorrupt(scene_stream[i])
              THEN [scenes |-> EmptyTable, cur_page |-> ZeroPage, status |-> "fail"]
              ELSE LoadPages(ReadStream(w.page_file),
                             [scenes |-> LoadScenes(scene_stream, EmptyTable),
                              cur_page |-> ZeroPage, status |-> "ok"],
                             ub)
        cur == IF st.cur_page.scale = 0 /\ st.cur_page.scene = 0 /\ st.cur_page.page = 0
               THEN [scene |-> 0, page |-> 0, angle |-> 0, scale |-> 1, key_frame |-> NULL]
               ELSE st.cur_page
        w1 == [w EXCEPT !.scenes = LoadKeyframes(ReadStream(w.header_file), st.scenes),
                        !.cur_page = cur,
                        !.packages = <<>>]
        d == janus_whiteboard_scene_page_data_l(w1, cur.scene, cur.page, <<>>)
    IN  IF st.status # "ok" THEN [status |-> st.status, w |-> w]
        ELSE [status |-> "ok", w |-> [w1 EXCEPT !.packages = d.packages]]

\* janus_whiteboard_free: the files stay, the memory goes
janus_whiteboard_free(w) ==
    [w EXCEPT !.scenes = EmptyTable, !.cur_page = ZeroPage, !.packages = <<>>]

----------------------------------------------------------------------------
\* The requests the callers send.

Targets == {[scene |-> 0, page |-> 0], [scene |-> 0, page |-> 1],
            [scene |-> 1, page |-> 0]}

CmdLists == {<<1>>, <<2, 3>>}

PageInfos == {PbPage(0, 0, 90, 2)}

DrawPackages ==
    {Pkg(KLPackageType_DrawCommand, 0, 0, c, NULL, NULL) : c \in CmdLists}
    \cup {Pkg(KLPackageType_DrawCommand, t.scene, t.page, <<1>>, NULL, NULL) :
              t \in Targets}

SwitchPackages ==
    {Pkg(KLPackageType_SwitchScenePage, t.scene, t.page, <<>>, NULL, NULL) :
        t \in Targets}

CleanPackages ==
    {Pkg(KLPackageType_CleanDraw, t.scene, t.page, <<>>, NULL, NULL) : t \in Targets}

PageChangePackages ==
    {Pkg(KLPackageType_PageChange, t.scene, t.page, <<>>, Some(i), NULL) :
        t \in Targets, i \in PageInfos}
    \cup {Pkg(KLPackageType_PageChange, 0, 0, <<>>, NULL, NULL)}

ScenePageDataPackages ==
    {Pkg(KLPackageType_ScenePageData, t.scene, t.page, <<>>, NULL, NULL) :
        t \in Targets \cup {[scene |-> -1, page |-> -1]}}

SceneDataPackages == {Pkg(KLPackageType_SceneData, 0, 0, <<>>, NULL, NULL)}

UnsupportedPackages ==
    {Pkg(ty, 0, 0, <<1>>, NULL, NULL) :
        ty \in {KLPackageType_KeyFrame, KLPackageType_DeleteScene}}

\* newScene of an AddScene package: append, insert at an index (free, taken
\* by the same resource or taken by another), an index past the end, and a
\* newScene whose fields are all at their defaults
AddScenePackages ==
    {Pkg(KLPackageType_AddScene, 0, 0, <<>>, NULL, Some(PbScene(d[1], d[2], d[3]))) :
        d \in {<<-1, "a", 2>>, <<0, "a", 2>>, <<0, "b", 1>>, <<2, "a", 2>>,
               <<0, "", 0>>}}

\* the arguments of the public janus_whiteboard_add_scene, as the package it builds
AddSceneCalls ==
    {Pkg(KLPackageType_AddScene, 0, 0, <<>>, NULL, Some(PbScene(d[1], d[2], d[3]))) :
        d \in {<<-1, "a", 2>>, <<0, "b", 1>>, <<-1, "a", 0>>}}

NoPackage == Pkg(KLPackageType_None, 0, 0, <<>>, NULL, NULL)

Threads == {1, 2}

\* what a thread that is in no call holds
NoRequest == [fn |-> "none", pkg |-> NoPackage]

----------------------------------------------------------------------------
\* the files of a session: data, header, scene and page
Files == {"data", "head", "scene", "page"}

\* no storage backend loaded, nothing in remote storage, no creation yet
NoOss ==
    /\ janus_oss_io = NULL
    /\ remote = [f \in Files |-> <<>>]
    /\ oss_path = NULL
    /\ fetch = [f \in Files |-> TRUE]

Init ==
    /\ file = <<>>
    /\ header_file = <<>>
    /\ scene_file = <<>>
    /\ page_file = <<>>
    /\ scenes = EmptyTable
    /\ cur_page = [scene |-> 0, page |-> 0, angle |-> 0, scale |-> 1, key_frame |-> NULL]
    /\ packages = <<>>
    /\ session = "open"
    /\ call = "none"
    /\ package = NoPackage
    /\ result = NewResult
    /\ ioerr = FALSE
    /\ failed = 0
    /\ mutex = 0
    /\ tpc = [t \in Threads |-> "idle"]
    /\ tpkg = [t \in Threads |-> NoRequest]
    /\ snap = [t \in Threads |-> NULL]
    /\ NoOss

\* the whiteboard becomes w
Store(w) ==
    /\ file' = w.file
    /\ header_file' = w.header_file
    /\ scene_file' = w.scene_file
    /\ page_file' = w.page_file
    /\ scenes' = w.scenes
    /\ cur_page' = w.cur_page
    /\ packages' = w.packages

\* the runs explored: MaxData bounds the data file, and with it the header
\* file, the page file and the cache, which outgrow it only when writes fail;
\* MaxSceneLog bounds the scene file, and the scenes in memory, which are at
\* most one ahead of it unless writes fail
WithinBounds(w) ==
    /\ Cardinality(DOMAIN w.scenes) <= MaxSceneLog + 1
    /\ Len(w.file) <= MaxData
    /\ Len(w.header_file) <= MaxData
    /\ Len(w.page_file) <= MaxData
    /\ Len(w.packages) <= MaxData
    /\ Len(w.scene_file) <= MaxSceneLog

\* no result is waiting for its caller: nothing was called yet, the last
\* result was consumed, or the session was just created
Idle == call \in {"none", "create"}

\* a public function runs from its lock to its return and leaves outcome o
Finish(o, name) ==
    /\ WithinBounds(o.w)
    /\ Store(o.w)
    /\ result' = o.result
    /\ package' = o.package
    /\ ioerr' = o.ioerr
    /\ failed' = IF o.ioerr THEN failed + 1 ELSE failed
    /\ failed' <= MaxFailures
    /\ call' = name
    /\ session' = IF o.crashed THEN "crashed" ELSE session
    /\ mutex' = IF o.unlocked \/ o.crashed THEN 0 ELSE 1

\* one call of janus_whiteboard_save_package by a single caller
SavePackage(pkg, io) ==
    /\ session = "open"
    /\ Idle
    /\ mutex = 0
    /\ \E ub \in HaveKeyframeOutcomes(WB, pkg) :
           Finish(janus_whiteboard_save_package(WB, pkg, ub, io), "save_package")
    /\ UNCHANGED <<tpc, tpkg, snap, ossvars>>

\* one call of the public janus_whiteboard_add_scene by a single caller
AddSceneCall(pkg, io) ==
    /\ session = "open"
    /\ Idle
    /\ mutex = 0
    /\ Finish(janus_whiteboard_add_scene(WB, pkg, io), "add_scene")
    /\ UNCHANGED <<tpc, tpkg, snap, ossvars>>

DrawCommand == \E pkg \in DrawPackages : SavePackage(pkg, IoAllOk)
SwitchScenePage == \E pkg \in SwitchPackages : SavePackage(pkg, IoAllOk)
CleanDraw == \E pkg \in CleanPackages : SavePackage(pkg, IoAllOk)
PageChange == \E pkg \in PageChangePackages : SavePackage(pkg, IoAllOk)
ScenePageData == \E pkg \in ScenePageDataPackages : SavePackage(pkg, IoAllOk)
SceneData == \E pkg \in SceneDataPackages : SavePackage(pkg, IoAllOk)
Unsupported == \E pkg \in UnsupportedPackages : SavePackage(pkg, IoAllOk)
AddScenePackage == \E pkg \in AddScenePackages : SavePackage(pkg, IoAllOk)
AddScene == \E pkg \in AddSceneCalls : AddSceneCall(pkg, IoAllOk)

\* the caller has used the result and released its buffers
Done ==
    /\ session = "open"
    /\ ~Idle
    /\ call' = "none"
    /\ package' = NoPackage
    /\ result' = NewResult
    /\ ioerr' = FALSE
    /\ UNCHANGED <<file, header_file, scene_file, page_file, scenes, cur_page,
                   packages, session, failed, mutex, tpc, tpkg, snap, ossvars>>

\* janus_whiteboard_free
Free ==
    /\ session = "open"
    /\ Idle
    /\ mutex = 0
    /\ Store(janus_whiteboard_free(WB))
    /\ session' = "freed"
    /\ call' = "free"
    /\ package' = NoPackage
    /\ result' = NewResult
    /\ ioerr' = FALSE
    /\ UNCHANGED <<failed, mutex, tpc, tpkg, snap, ossvars>>

\* janus_whiteboard_create on the files of a freed or crashed session
Create ==
    /\ session \in {"freed", "crashed"}
    /\ \E ub \in PageLoopOutcomes(scene_file, page_file) :
           LET c == janus_whiteboard_create(janus_whiteboard_free(WB), ub)
           IN  /\ Store(c.w)
               /\ session' = IF c.status = "ok" THEN "open"
                             ELSE IF c.status = "crash" THEN "crashed" ELSE "freed"
    /\ call' = "create"
    /\ package' = NoPackage
    /\ result' = NewResult
    /\ ioerr' = FALSE
    /\ mutex' = 0
    /\ UNCHANGED <<failed, tpc, tpkg, snap, ossvars>>

Next ==
    \/ DrawCommand
    \/ SwitchScenePage
    \/ CleanDraw
    \/ PageChange
    \/ ScenePageData
    \/ SceneData
    \/ Unsupported
    \/ AddScenePackage
    \/ AddScene
    \/ Done

\* one session, from its creation on empty files
Spec == Init /\ [][Next]_vars

NextReopen ==
    \/ Next
    \/ Free
    \/ Create

\* sessions that are freed (or die) and are created again from their files
SpecReopen == Init /\ [][NextReopen]_vars

----------------------------------------------------------------------------
\* The replay the specification names: seek the data file to the key-frame
\* offset of page (scene, page), 0 when it has none, and reduce every record
\* of that page with janus_whiteboard_add_pkt_to_packages_l.
Replay(w, scene, page) ==
    LET offset == IF HasPage(w, scene, page)
                     /\ w.scenes[scene].pages[page].key_frame # NULL
                  THEN w.scenes[scene].pages[page].key_frame[1].offset
                  ELSE 0
    IN  ReduceRecords(SeekRead(w.file, offset), scene, page, <<>>)

\* C1 (I4): in every state of an open session the cache equals the replay of
\* the data file for the current page from that page's key-frame offset.
C1_CacheEqualsReplay ==
    session = "open" => packages = Replay(WB, cur_page.scene, cur_page.page)

\* the call that has just returned
Called == Idle /\ ~Idle' /\ call' \in {"save_package", "add_scene"}

\* the last record of the data file after a step that appended one
Appended == file'[Len(file')]

----------------------------------------------------------------------------
\* C2 (I1): every record that a save_package call appends to the data file
\* names a scene that exists at that moment and a page with
\* 0 <= page < page_count of that scene, whatever the type of the package.
C2_AppendedRecordNamesExistingPage ==
    [][Len(file') > Len(file) => HasPage(WB, Appended.scene, Appended.page)]_vars

----------------------------------------------------------------------------
\* the records of the data file that name page (scene, page), in file order
PageRecords(f, scene, page) ==
    SelectSeq(f, LAMBDA r : r.scene = scene /\ r.page = page)

\* N >= 1 DrawCommand packages and nothing else were logged for the page
OnlyDrawCommands(recs) ==
    /\ recs # <<>>
    /\ \A i \in 1..Len(recs) : recs[i].type = KLPackageType_DrawCommand

\* C3 (round trip across close and reopen): when the data file holds N
\* DrawCommand packages for (0,0) and no other record for that page, the
\* first ScenePageData request for (0,0) of a session created again from the
\* files returns one DrawCommand package whose commands are the
\* concatenation, in arrival order, of the commands of the N packages.
C3_RoundTripAcrossReopen ==
    [][(/\ call = "create" /\ session = "open"
        /\ call' = "save_package"
        /\ package'.type = KLPackageType_ScenePageData
        /\ package'.scene = 0 /\ package'.page = 0
        /\ HasPage(WB, 0, 0)
        /\ OnlyDrawCommands(PageRecords(file, 0, 0)))
       => /\ result'.ret = 1
          /\ result'.command_buf =
                 Some(Pkg(KLPackageType_DrawCommand, 0, 0,
                          ConcatCmd(PageRecords(file, 0, 0)), NULL, NULL))]_vars

----------------------------------------------------------------------------
\* page (scene, page) of table tbl exists and holds a key frame
LiveKeyFrame(tbl, scene, page) ==
    /\ HasPage([scenes |-> tbl], scene, page)
    /\ tbl[scene].pages[page].key_frame # NULL

\* C4 (I5): a step that appends a package for a page without a live key
\* frame installs on that page a key frame whose offset is the offset of that
\* very record and appends it to the header file; and in every state of an
\* open session every page named by a record of the data file has a live key
\* frame.
C4_KeyFrameBeforeFirstRecord ==
    /\ [][(Len(file') > Len(file)
           /\ ~LiveKeyFrame(scenes, Appended.scene, Appended.page))
          => /\ LiveKeyFrame(scenes', Appended.scene, Appended.page)
             /\ scenes'[Appended.scene].pages[Appended.page].key_frame[1].offset
                    = FileSize(file)
             /\ header_file' =
                    Append(header_file,
                           scenes'[Appended.scene].pages[Appended.page].key_frame[1])
         ]_vars
    /\ [](session = "open" =>
             \A i \in 1..Len(file) : LiveKeyFrame(scenes, file[i].scene, file[i].page))

----------------------------------------------------------------------------
IsPrefix(s, t) == Len(s) <= Len(t) /\ SubSeq(t, 1, Len(s)) = s

\* the offsets at which a record of data file f starts, and its end
RecordBoundaries(f) == {FileSize(SubSeq(f, 1, n)) : n \in 0..Len(f)}

\* the key frames written to the header file and those the pages hold
KeyFramesKnown ==
    {header_file[i] : i \in 1..Len(header_file)}
    \cup UNION {{scenes[s].pages[p].key_frame[1] :
                    p \in {q \in DOMAIN scenes[s].pages :
                              scenes[s].pages[q].key_frame # NULL}} :
                s \in DOMAIN scenes}

----------------------------------------------------------------------------
\* page (scene, page) is not the current page and never was: it is not the
\* page a session starts on and no SwitchScenePage to it was logged
NeverCurrent(scene, page) ==
    /\ ~(scene = 0 /\ page = 0)
    /\ ~(scene = cur_page.scene /\ page = cur_page.page)
    /\ \A i \in 1..Len(file) :
           ~(/\ file[i].type = KLPackageType_SwitchScenePage
             /\ file[i].scene = scene /\ file[i].page = page)

\* C6 (replay determinism for a non-current page): a ScenePageData request
\* for a page P that was never current is answered with the package that
\* pack(cache) would yield had P been current while its packages arrived,
\* i.e. the pack of the live reduction of every package logged for P.
C6_OnDemandEqualsLive ==
    [][(/\ Called /\ call' = "save_package"
        /\ package'.type = KLPackageType_ScenePageData
        /\ result'.ret = 1
        /\ NeverCurrent(package'.scene, package'.page))
       => result'.command_buf =
              janus_whiteboard_packed_data_l(
                  ReduceRecords(file, package'.scene, package'.page, <<>>),
                  NewResult).command_buf]_vars

----------------------------------------------------------------------------
PageScopedTypes ==
    {KLPackageType_DrawCommand, KLPackageType_SwitchScenePage,
     KLPackageType_PageChange, KLPackageType_CleanDraw,
     KLPackageType_ScenePageData}

\* the reasons for which a request is invalid in whiteboard w
InvalidRequest(w, pkg) ==
    LET scene_num == Cardinality(DOMAIN w.scenes)
    IN  \/ /\ pkg.type \in PageScopedTypes
           /\ ~HasPage(w, pkg.scene, pkg.page)
        \/ pkg.type = KLPackageType_PageChange /\ pkg.page_info = NULL
        \/ pkg.type = KLPackageType_SceneData /\ scene_num = 0
        \/ /\ pkg.type = KLPackageType_AddScene
           /\ \/ pkg.newscene[1].pagecount <= 0
              \/ pkg.newscene[1].index > scene_num
              \/ /\ pkg.newscene[1].index \in DOMAIN w.scenes
                 /\ w.scenes[pkg.newscene[1].index].source_url
                        = pkg.newscene[1].resource

\* C8 (validate-then-commit): a call that rejects an invalid request with
\* ret < 0 leaves the four files, the scenes, the current page and the cache
\* as they were.
C8_RejectedLeavesNoTrace ==
    [][(Called /\ session' = "open" /\ result'.ret < 0
        /\ InvalidRequest(WB, package'))
       => UNCHANGED <<file, header_file, scene_file, page_file,
                      scenes, cur_page, packages>>]_vars

----------------------------------------------------------------------------
\* C10 (scene bounds): save_package answers ret < 0 to every page-scoped
\* package whose scene index is at least the number of scenes.
C10_SceneOutOfRangeRejected ==
    [][(/\ Called /\ call' = "save_package" /\ session' = "open"
        /\ package'.type \in PageScopedTypes
        /\ package'.scene >= Cardinality(DOMAIN scenes))
       => result'.ret < 0]_vars

----------------------------------------------------------------------------
\* Writes that fail.  At most one of the four files refuses its write during
\* a call.

IoFailures ==
    {IoAllOk,
     [IoAllOk EXCEPT !.data = FALSE], [IoAllOk EXCEPT !.head = FALSE],
     [IoAllOk EXCEPT !.scene = FALSE], [IoAllOk EXCEPT !.page = FALSE]}

IoPackages ==
    {Pkg(KLPackageType_DrawCommand, 0, 0, <<1>>, NULL, NULL),
     Pkg(KLPackageType_CleanDraw, 0, 0, <<>>, NULL, NULL),
     Pkg(KLPackageType_SwitchScenePage, 0, 1, <<>>, NULL, NULL),
     Pkg(KLPackageType_SwitchScenePage, 0, 0, <<>>, NULL, NULL),
     Pkg(KLPackageType_PageChange, 0, 0, <<>>, Some(PbPage(0, 0, 90, 2)), NULL),
     Pkg(KLPackageType_AddScene, 0, 0, <<>>, NULL, Some(PbScene(-1, "a", 2)))}

IoAddSceneCalls ==
    {Pkg(KLPackageType_AddScene, 0, 0, <<>>, NULL, Some(PbScene(0, "b", 1)))}

SavePackageIO == \E pkg \in IoPackages, io \in IoFailures : SavePackage(pkg, io)

AddSceneIO == \E pkg \in IoAddSceneCalls, io \in IoFailures : AddSceneCall(pkg, io)

NextIO ==
    \/ SavePackageIO
    \/ AddSceneIO
    \/ Done

\* one session whose writes may fail
SpecIO == Init /\ [][NextIO]_vars

\* C9 (I/O failure): a call during which the write to the data, header,
\* scene or page file fails returns ret < 0 and leaves the scenes (with their
\* key frames and transforms), the current page and the cache as they were.
C9_FailedWriteLeavesMemory ==
    [][(Called /\ ioerr')
       => /\ result'.ret < 0
          /\ UNCHANGED <<scenes, cur_page, packages>>]_vars

----------------------------------------------------------------------------
\* Concurrent callers.  A thread enters a public function, takes the mutex
\* (janus_mutex_lock_nodebug blocks while another thread holds it), reads
\* the whiteboard, and on its way out writes what the function computed from
\* what it read and releases the mutex.

ConcRequests ==
    [fn : {"save_package"},
     pkg : {Pkg(KLPackageType_DrawCommand, 0, 0, <<1>>, NULL, NULL),
            Pkg(KLPackageType_DrawCommand, 0, 0, <<2, 3>>, NULL, NULL),
            Pkg(KLPackageType_CleanDraw, 0, 0, <<>>, NULL, NULL),
            Pkg(KLPackageType_SwitchScenePage, 0, 1, <<>>, NULL, NULL),
            Pkg(KLPackageType_AddScene, 0, 0, <<>>, NULL, Some(PbScene(-1, "a", 2)))}]
    \cup
    [fn : {"add_scene"},
     pkg : {Pkg(KLPackageType_AddScene, 0, 0, <<>>, NULL, Some(PbScene(0, "b", 1)))}]

\* the ways request req can end when it runs on whiteboard w
Outcomes(w, req) ==
    IF req.fn = "add_scene"
    THEN {janus_whiteboard_add_scene(w, req.pkg, IoAllOk)}
    ELSE {janus_whiteboard_save_package(w, req.pkg, ub, IoAllOk) :
             ub \in HaveKeyframeOutcomes(w, req.pkg)}

\* the calls in progress that may append to the scene file / to the data file
InFlight(isScene) ==
    Cardinality({t \in Threads :
                    /\ tpc[t] # "idle"
                    /\ (tpkg[t].pkg.type = KLPackageType_AddScene) = isScene})

Enter(t) ==
    /\ session = "open"
    /\ tpc[t] = "idle"
    /\ \E req \in ConcRequests :
           /\ IF req.pkg.type = KLPackageType_AddScene
              THEN Len(scene_file) + InFlight(TRUE) < MaxSceneLog
              ELSE Len(file) + InFlight(FALSE) < MaxData
           /\ tpkg' = [tpkg EXCEPT ![t] = req]
    /\ tpc' = [tpc EXCEPT ![t] = "called"]
    /\ UNCHANGED <<file, header_file, scene_file, page_file, scenes, cur_page,
                   packages, session, call, package, result, ioerr, failed, mutex, snap,
                   ossvars>>

\* janus_mutex_lock_nodebug without the wait: the thread goes on whether or
\* not the mutex is held
LockWithoutWaiting(t) ==
    /\ session = "open"
    /\ tpc[t] = "called"
    /\ mutex' = t
    /\ tpc' = [tpc EXCEPT ![t] = "locked"]
    /\ snap' = [snap EXCEPT ![t] = Some(WB)]
    /\ UNCHANGED <<file, header_file, scene_file, page_file, scenes, cur_page,
                   packages, session, call, package, result, ioerr, failed, tpkg,
                   ossvars>>

Lock(t) ==
    /\ session = "open"
    /\ tpc[t] = "called"
    /\ mutex = 0
    /\ mutex' = t
    /\ tpc' = [tpc EXCEPT ![t] = "locked"]
    /\ snap' = [snap EXCEPT ![t] = Some(WB)]
    /\ UNCHANGED <<file, header_file, scene_file, page_file, scenes, cur_page,
                   packages, session, call, package, result, ioerr, failed, tpkg,
                   ossvars>>

Leave(t) ==
    /\ session = "open"
    /\ tpc[t] = "locked"
    /\ \E o \in Outcomes(snap[t][1], tpkg[t]) :
           /\ Store(o.w)
           /\ session' = IF o.crashed THEN "crashed" ELSE session
           /\ mutex' = IF o.unlocked THEN 0 ELSE mutex
    /\ tpc' = [tpc EXCEPT ![t] = "idle"]
    /\ tpkg' = [tpkg EXCEPT ![t] = NoRequest]
    /\ snap' = [snap EXCEPT ![t] = NULL]
    /\ UNCHANGED <<call, package, result, ioerr, failed, ossvars>>

NextConc == \E t \in Threads : Enter(t) \/ Lock(t) \/ Leave(t)

\* two threads calling into one session
SpecConc == Init /\ [][NextConc]_vars

----------------------------------------------------------------------------
\* Requests a well-behaved client does not send: a scene with no pages, a
\* scene index below the sentinel -1, and a switch whose page_info names
\* another page than the package does.

EdgePackages ==
    {Pkg(KLPackageType_AddScene, 0, 0, <<>>, NULL, Some(PbScene(-1, "a", n))) :
        n \in {0, 2}}
    \cup {Pkg(KLPackageType_AddScene, 0, 0, <<>>, NULL, Some(PbScene(-2, "a", 2)))}
    \cup {Pkg(KLPackageType_SwitchScenePage, t.scene, t.page, <<>>, i, NULL) :
              t \in Targets, i \in {NULL} \cup {Some(p) : p \in PageInfos}}
    \cup {Pkg(KLPackageType_DrawCommand, t.scene, t.page, <<1>>, NULL, NULL) :
              t \in Targets}
    \cup {Pkg(KLPackageType_ScenePageData, t.scene, t.page, <<>>, NULL, NULL) :
              t \in Targets}

EdgeAddSceneCalls ==
    {Pkg(KLPackageType_AddScene, 0, 0, <<>>, NULL, Some(PbScene(-1, "a", n))) :
        n \in {0, 2}}

SavePackageEdge == \E pkg \in EdgePackages : SavePackage(pkg, IoAllOk)

AddSceneEdge == \E pkg \in EdgeAddSceneCalls : AddSceneCall(pkg, IoAllOk)

NextEdge ==
    \/ SavePackageEdge
    \/ AddSceneEdge
    \/ Done

\* one session that receives such requests
SpecEdge == Init /\ [][NextEdge]_vars

\* C11 (AddScene, page_count <= 0): through janus_whiteboard_add_scene and
\* through an AddScene package given to janus_whiteboard_save_package, a
\* scene descriptor whose page count is not positive is answered ret < 0,
\* adds no scene to the table and no record to the scene file.
C11_NonPositivePageCountRejected ==
    [][(/\ Called
        /\ package'.type = KLPackageType_AddScene
        /\ package'.newscene[1].pagecount <= 0)
       => /\ result'.ret < 0
          /\ UNCHANGED <<scenes, scene_file>>]_vars

----------------------------------------------------------------------------
----------------------------------------------------------------------------
\* the whiteboard a step leaves
WBAfter ==
    [file |-> file', header_file |-> header_file', scene_file |-> scene_file',
     page_file |-> page_file', scenes |-> scenes', cur_page |-> cur_page',
     packages |-> packages']

\* what save_package would answer to a ScenePageData request for (scene,
\* page) on whiteboard w
ScenePageDataAnswer(w, scene, page) ==
    janus_whiteboard_save_package(
        w, Pkg(KLPackageType_ScenePageData, scene, page, <<>>, NULL, NULL),
        "false", IoAllOk).result

\* C13 (CleanDraw clears): right after an accepted CleanDraw for the current
\* page a ScenePageData request for the current page is answered with a
\* CleanDraw package without commands, whatever the cache held; a CleanDraw
\* for another page leaves the cache as it was.
C13_CleanDrawClears ==
    [][(/\ Called /\ call' = "save_package"
        /\ package'.type = KLPackageType_CleanDraw)
       => IF package'.scene = cur_page.scene /\ package'.page = cur_page.page
          THEN result'.ret = 0
               => LET a == ScenePageDataAnswer(WBAfter, cur_page'.scene, cur_page'.page)
                  IN  /\ a.ret = 1
                      /\ a.command_buf # NULL
                      /\ a.command_buf[1].type = KLPackageType_CleanDraw
                      /\ a.command_buf[1].cmd = <<>>
          ELSE packages' = packages]_vars

\* a CleanDraw for the current page was accepted right after a DrawCommand
\* for that page had entered the cache
C13_Witness ==
    /\ call = "save_package"
    /\ package.type = KLPackageType_CleanDraw
    /\ result.ret = 0
    /\ package.scene = cur_page.scene /\ package.page = cur_page.page
    /\ Len(file) >= 2
    /\ file[Len(file) - 1].type = KLPackageType_DrawCommand
    /\ file[Len(file) - 1].scene = cur_page.scene
    /\ file[Len(file) - 1].page = cur_page.page
    /\ packages = <<>>

----------------------------------------------------------------------------
\* C14 (no-op switch): a SwitchScenePage that names the current (scene,
\* page) returns ret = 0, appends nothing to the page, data and header
\* files, and leaves the current page, the cache and the key frame of every
\* page as they were.
C14_SwitchToCurrentIsNoOp ==
    [][(/\ Called /\ call' = "save_package"
        /\ package'.type = KLPackageType_SwitchScenePage
        /\ package'.scene = cur_page.scene
        /\ package'.page = cur_page.page)
       => /\ result'.ret = 0
          /\ UNCHANGED <<page_file, file, header_file, cur_page, packages, scenes>>]_vars

\* a switch to the current page has returned on a session that has a cache,
\* a key frame and a page record to lose
C14_Witness ==
    /\ call = "save_package"
    /\ package.type = KLPackageType_SwitchScenePage
    /\ package.scene = cur_page.scene /\ package.page = cur_page.page
    /\ result.ret = 0
    /\ packages # <<>>
    /\ Len(page_file) = 1
    /\ page_file[1].scene = cur_page.scene /\ page_file[1].page = cur_page.page
    /\ LiveKeyFrame(scenes, cur_page.scene, cur_page.page)

----------------------------------------------------------------------------
----------------------------------------------------------------------------
\* C16 (effect of an accepted switch): a SwitchScenePage to an existing page
\* T that is not current appends exactly one record to the page file, and
\* that record names T; T becomes current; the cache is rebuilt to the
\* replay of T's records in the data file from T's key frame; no package of
\* the page left behind stays in the cache.
C16_AcceptedSwitchEffect ==
    [][(/\ Called /\ call' = "save_package" /\ session' = "open"
        /\ package'.type = KLPackageType_SwitchScenePage
        /\ ~(package'.scene = cur_page.scene /\ package'.page = cur_page.page)
        /\ HasPage(WB, package'.scene, package'.page))
       => /\ Len(page_file') = Len(page_file) + 1
          /\ SubSeq(page_file', 1, Len(page_file)) = page_file
          /\ page_file'[Len(page_file')].scene = package'.scene
          /\ page_file'[Len(page_file')].page = package'.page
          /\ cur_page'.scene = package'.scene
          /\ cur_page'.page = package'.page
          /\ packages' = Replay(WBAfter, package'.scene, package'.page)
          /\ \A i \in 1..Len(packages') :
                 /\ packages'[i].scene = package'.scene
                 /\ packages'[i].page = package'.page]_vars

----------------------------------------------------------------------------
\* the data file holds for page (scene, page) the record of one switch to it
\* at most, and after it k >= 1 DrawCommand packages and nothing else
SwitchThenDraws(recs) ==
    LET draws == IF recs # <<>> /\ recs[1].type = KLPackageType_SwitchScenePage
                 THEN Tail(recs) ELSE recs
    IN  OnlyDrawCommands(draws)

\* C17 (current-page query after a switch): when scene s exists with more
\* than p pages, (s,p) is current, and the data file holds for (s,p) the
\* switch to it followed by k DrawCommand packages, a ScenePageData(s,p)
\* request returns ret = 1 and one DrawCommand package with scene s, page p
\* and the commands of the k packages concatenated in arrival order.
C17_QueryAfterSwitch ==
    session = "open" =>
        \A t \in Targets :
            (/\ HasPage(WB, t.scene, t.page)
             /\ cur_page.scene = t.scene /\ cur_page.page = t.page
             /\ SwitchThenDraws(PageRecords(file, t.scene, t.page)))
            => LET a == ScenePageDataAnswer(WB, t.scene, t.page)
               IN  /\ a.ret = 1
                   /\ a.command_buf =
                          Some(Pkg(KLPackageType_DrawCommand, t.scene, t.page,
                                   ConcatCmd(PageRecords(file, t.scene, t.page)),
                                   NULL, NULL))

\* the scenario of the claim has run: scene 0 was added with two pages, a
\* switch to (0,1) and two DrawCommand packages for (0,1) were accepted, and
\* the ScenePageData request for (0,1) has been answered
C17_Witness ==
    /\ call = "save_package"
    /\ package.type = KLPackageType_ScenePageData
    /\ package.scene = 0 /\ package.page = 1
    /\ cur_page.scene = 0 /\ cur_page.page = 1
    /\ Len(scene_file) = 1
    /\ Len(file) = 3
    /\ file[1].type = KLPackageType_SwitchScenePage
    /\ PageRecords(file, 0, 1) = file
    /\ SwitchThenDraws(file)
    /\ result.ret = 1
    /\ Len(result.command_buf[1].cmd) = 2

----------------------------------------------------------------------------
\* C18 (ScenePageData target selection): in every state of an open session,
\* a ScenePageData request with a negative scene or page is answered for
\* the current page; a request whose target, defaulted or not, is the
\* current page is answered with the packed cache; a request for another
\* existing page is answered with the packed replay of that page's records
\* from its key frame; every answered request returns ret = 1; and no
\* request changes the cache or anything else of the session.
C18_ScenePageDataTarget ==
    session = "open" =>
        \A pkg \in ScenePageDataPackages :
            LET o == janus_whiteboard_save_package(WB, pkg, "false", IoAllOk)
                defaulted == pkg.scene < 0 \/ pkg.page < 0
                scene == IF defaulted THEN cur_page.scene ELSE pkg.scene
                page == IF defaulted THEN cur_page.page ELSE pkg.page
                source == IF scene = cur_page.scene /\ page = cur_page.page
                          THEN packages
                          ELSE Replay(WB, scene, page)
            IN  /\ o.w = WB
                /\ IF HasPage(WB, scene, page)
                   THEN o.result = [janus_whiteboard_packed_data_l(source, NewResult)
                                       EXCEPT !.ret = 1]
                   ELSE o.result.ret < 0

\* a ScenePageData request for a page that is not current was answered from
\* the data file while the cache held something else
C18_Witness ==
    /\ call = "save_package"
    /\ package.type = KLPackageType_ScenePageData
    /\ ~(package.scene = cur_page.scene /\ package.page = cur_page.page)
    /\ result.ret = 1
    /\ packages # <<>>
    /\ result.command_buf[1].type = KLPackageType_DrawCommand
    /\ result.command_buf[1].cmd # <<>>
    /\ result.command_buf[1].scene = package.scene
    /\ result.command_buf[1].page = package.page
    /\ packages[1].page # package.page

----------------------------------------------------------------------------
QueryTypes == {KLPackageType_SceneData, KLPackageType_ScenePageData}

\* C19 (query types are pure reads): a SceneData or ScenePageData request,
\* answered or refused, appends nothing to the data, header, scene and page
\* files and leaves the current page, the cache and the scenes with the key
\* frame and transform of every page as they were; and no record of one of
\* these two types is ever in the data file.
C19_QueriesArePureReads ==
    /\ [](\A i \in 1..Len(file) : file[i].type \notin QueryTypes)
    /\ [][(/\ Called /\ call' = "save_package"
           /\ package'.type \in QueryTypes)
          => UNCHANGED <<file, header_file, scene_file, page_file,
                         cur_page, packages, scenes>>]_vars

\* a SceneData request was answered on a session that has records, a cache
\* and a key frame
C19_Witness ==
    /\ call = "save_package"
    /\ package.type = KLPackageType_SceneData
    /\ result.ret = 1
    /\ result.command_buf # NULL
    /\ file # <<>>
    /\ packages # <<>>
    /\ header_file # <<>>
    /\ page_file # <<>>

----------------------------------------------------------------------------
\* Logs that were damaged while no session had them open.

MaxCorruptLog == 2

\* the sequences over set S of length at most n
SeqsUpTo(S, n) == UNION {[1..k -> S] : k \in 0..n}

CorruptSceneLogs ==
    {<<PbScene(0, "a", 2)>> \o t :
        t \in SeqsUpTo({PbScene(1, "b", 1), Undecodable, ZeroPrefix,
                        Oversize(<<PbScene(1, "b", 1)>>)}, MaxCorruptLog)}

CorruptPageLogs ==
    SeqsUpTo({PbPage(0, 0, 90, 2), PbPage(0, 1, 0, 1), PbPage(0, 2, 0, 1),
              Undecodable, ZeroPrefix,
              Oversize(<<PbPage(0, 1, 0, 1)>>)}, MaxCorruptLog)

CorruptHeaderLogs ==
    SeqsUpTo({[scene |-> 0, page |-> 0, offset |-> 0],
              [scene |-> 0, page |-> 1, offset |-> 0],
              Undecodable, ZeroPrefix,
              Oversize(<<[scene |-> 0, page |-> 1, offset |-> 0]>>)}, MaxCorruptLog)

InitCorrupt ==
    /\ file = <<>>
    /\ header_file \in CorruptHeaderLogs
    /\ scene_file \in CorruptSceneLogs
    /\ page_file \in CorruptPageLogs
    /\ scenes = EmptyTable
    /\ cur_page = ZeroPage
    /\ packages = <<>>
    /\ session = "freed"
    /\ call = "none"
    /\ package = NoPackage
    /\ result = NewResult
    /\ ioerr = FALSE
    /\ failed = 0
    /\ mutex = 0
    /\ tpc = [t \in Threads |-> "idle"]
    /\ tpkg = [t \in Threads |-> NoRequest]
    /\ snap = [t \in Threads |-> NULL]
    /\ NoOss

NextCorrupt ==
    \/ Create
    \/ ScenePageData
    \/ SceneData
    \/ Done

\* a session created on such logs, then asked what it recovered
SpecCorrupt == InitCorrupt /\ [][NextCorrupt]_vars

RECURSIVE TrustedPrefix(_)
\* the records of a log that precede its first damaged record
TrustedPrefix(log) ==
    IF log = <<>> \/ IsCorrupt(Head(log)) THEN <<>>
    ELSE <<Head(log)>> \o TrustedPrefix(Tail(log))

\* C20 (corruption tolerance on open): whatever undecodable record or length
\* prefix of 0 or of at least the maximum the scene, page and header files
\* hold, janus_whiteboard_create succeeds, and it rebuilds the scenes, key
\* frames and current page from the records that precede the first damaged
\* record of each file and from nothing after it.
C20_CorruptionTolerance ==
    [][(session = "freed" /\ call' = "create")
       => LET trusted == [janus_whiteboard_free(WB) EXCEPT
                             !.scene_file = TrustedPrefix(@),
                             !.page_file = TrustedPrefix(@),
                             !.header_file = TrustedPrefix(@)]
              expected == janus_whiteboard_create(trusted, "goes on").w
          IN  /\ session' = "open"
              /\ scenes' = expected.scenes
              /\ cur_page' = expected.cur_page]_vars

----------------------------------------------------------------------------
\* C21 (scene indices have no gaps): in every state of an open session the
\* indices of the scenes in the table are exactly 0 .. n-1, n being the
\* number of scenes, whatever indices the AddScene requests asked for.
C21_SceneIndicesContiguous ==
    session = "open" => DOMAIN scenes = 0..(Cardinality(DOMAIN scenes) - 1)

----------------------------------------------------------------------------
\* C22 (a scene is created once): no step of an open session removes a scene
\* from the table, changes its page_num or source_url, or leaves one of its
\* pages without the key frame it had.
C22_SceneCreatedOnce ==
    [][(session = "open" /\ session' = "open")
       => \A i \in DOMAIN scenes :
            /\ i \in DOMAIN scenes'
            /\ scenes'[i].page_num = scenes[i].page_num
            /\ scenes'[i].source_url = scenes[i].source_url
            /\ \A p \in DOMAIN scenes[i].pages :
                 scenes[i].pages[p].key_frame # NULL
                     => scenes'[i].pages[p].key_frame # NULL]_vars

----------------------------------------------------------------------------
\* C23 (PageChange): a PageChange with a valid target and a page_info
\* appends exactly one record to the page file and sets the angle and scale
\* of the target page in the table to those of the page_info; when the
\* target is the current page cur_page takes the same angle and scale, and
\* otherwise cur_page is unchanged.
C23_PageChangeEffect ==
    [][(/\ Called /\ call' = "save_package"
        /\ package'.type = KLPackageType_PageChange
        /\ janus_whiteboard_package_check(WB, package')
        /\ package'.page_info # NULL)
       => LET info == package'.page_info[1]
              target == scenes'[package'.scene].pages[package'.page]
          IN  /\ Len(page_file') = Len(page_file) + 1
              /\ SubSeq(page_file', 1, Len(page_file)) = page_file
              /\ target.angle = info.angle
              /\ target.scale = info.scale
              /\ IF cur_page.scene = package'.scene /\ cur_page.page = package'.page
                 THEN /\ cur_page'.scene = cur_page.scene
                      /\ cur_page'.page = cur_page.page
                      /\ cur_page'.angle = info.angle
                      /\ cur_page'.scale = info.scale
                 ELSE cur_page' = cur_page]_vars

\* a PageChange for a page that is not the current one has returned: its
\* transform is in the table and cur_page still has its own
C23_Witness ==
    /\ call = "save_package"
    /\ package.type = KLPackageType_PageChange
    /\ package.page_info # NULL
    /\ result.ret = 0
    /\ cur_page.scene = 0 /\ cur_page.page = 0 /\ cur_page.angle = 0
    /\ package.scene = 0 /\ package.page = 1
    /\ HasPage(WB, 0, 1)
    /\ scenes[0].pages[1].angle = package.page_info[1].angle
    /\ scenes[0].pages[1].angle # 0
    /\ page_file # <<>>

----------------------------------------------------------------------------
\* C24 (recovery is last-write-wins for key frames): when a session is
\* created from its files, every page of every scene holds the key frame of
\* the last header-file record that names its (scene, page), and a page that
\* no header-file record names holds none.

\* positions of the header-file records that name (scene, page)
HeaderRecordsOf(scene, page) ==
    {k \in 1..Len(header_file) :
        /\ ~IsCorrupt(header_file[k])
        /\ header_file[k].scene = scene /\ header_file[k].page = page}

C24_RecoveryLastWriteWins ==
    [][(session = "freed" /\ call' = "create" /\ session' = "open")
       => \A i \in DOMAIN scenes' : \A p \in DOMAIN scenes'[i].pages :
            LET named == HeaderRecordsOf(i, p)
                last == CHOOSE k \in named : \A j \in named : j <= k
            IN  scenes'[i].pages[p].key_frame =
                    IF named = {} THEN NULL ELSE Some(header_file[last])]_vars

\* a session has been created from a header file with two records for page
\* (0,0) at different offsets and page (0,1) named by none
C24_Witness ==
    /\ call = "create" /\ session = "open"
    /\ HasPage(WB, 0, 1)
    /\ HeaderRecordsOf(0, 1) = {}
    /\ \E j, k \in HeaderRecordsOf(0, 0) :
         j < k /\ header_file[j] # header_file[k]

----------------------------------------------------------------------------
\* Creation of a session whose files are kept in remote storage
\* (whiteboard.c: oss_init, janus_whiteboard_create_with_oss and the
\* janus_whiteboard_create that takes an oss_path).

\* the order in which janus_whiteboard_create_with_oss fetches the files
FetchOrder == <<"scene", "head", "page", "data">>

\* the local files of w with file f holding log
WithFile(w, f, log) ==
    IF f = "scene" THEN [w EXCEPT !.scene_file = log]
    ELSE IF f = "head" THEN [w EXCEPT !.header_file = log]
    ELSE IF f = "page" THEN [w EXCEPT !.page_file = log]
    ELSE [w EXCEPT !.file = log]

RECURSIVE FetchAll(_, _, _, _)
\* the four read_data_to_file calls from the k-th on: a fetch that succeeds
\* replaces the local file by the remote object, the first one that fails
\* ends the creation
FetchAll(w, rem, ok, k) ==
    IF k > Len(FetchOrder) THEN [status |-> "ok", w |-> w]
    ELSE IF ~ok[FetchOrder[k]] THEN [status |-> "fail", w |-> w]
    ELSE FetchAll(WithFile(w, FetchOrder[k], rem[FetchOrder[k]]), rem, ok, k + 1)

\* janus_whiteboard_create_with_oss: io is janus_oss_io, made whether every
\* io_info_create succeeded, ok the outcome of each read_data_to_file
janus_whiteboard_create_with_oss(w, path, io, rem, made, ok) ==
    IF path # NULL /\ io # NULL /\ ~made THEN [status |-> "fail", w |-> w]
    ELSE IF path # NULL /\ io # NULL THEN FetchAll(w, rem, ok, 1)
    ELSE [status |-> "ok", w |-> w]

\* janus_whiteboard_create(oss_path, local_dir, filename): the session is
\* made by janus_whiteboard_create_with_file(local_dir, filename) and then
\* rebuilt from the local files; oss_path is not used
janus_whiteboard_create_with_path(w, path, ub) ==
    janus_whiteboard_create(w, ub)

\* what the local directory and the remote storage can hold when a session
\* is created
LocalSceneLogs == {<<>>, <<PbScene(0, "a", 2)>>}
RemoteSceneLogs == {<<>>, <<PbScene(0, "b", 1)>>}
OssPaths == {NULL, Some("oss")}
FetchOutcomes == [Files -> BOOLEAN]

InitOss ==
    /\ file = <<>>
    /\ header_file = <<>>
    /\ scene_file \in LocalSceneLogs
    /\ page_file = <<>>
    /\ scenes = EmptyTable
    /\ cur_page = ZeroPage
    /\ packages = <<>>
    /\ session = "freed"
    /\ call = "none"
    /\ package = NoPackage
    /\ result = NewResult
    /\ ioerr = FALSE
    /\ failed = 0
    /\ mutex = 0
    /\ tpc = [t \in Threads |-> "idle"]
    /\ tpkg = [t \in Threads |-> NoRequest]
    /\ snap = [t \in Threads |-> NULL]
    /\ janus_oss_io = NULL
    /\ remote \in {[f \in Files |-> IF f = "scene" THEN s ELSE <<>>] :
                      s \in RemoteSceneLogs}
    /\ oss_path = NULL
    /\ fetch = [f \in Files |-> TRUE]

\* oss_init: dlopen finds the backend or not
OssInit ==
    /\ session = "freed"
    /\ \E io \in {NULL, Some("oss")} : janus_oss_io' = io
    /\ call' = "oss_init"
    /\ UNCHANGED <<file, header_file, scene_file, page_file, scenes, cur_page,
                   packages, session, package, result, ioerr, failed, mutex,
                   tpc, tpkg, snap, remote, oss_path, fetch>>

\* the parts of a creation step that are the same for both functions
Created(c, name, path, ok) ==
    /\ Store(c.w)
    /\ session' = IF c.status = "ok" THEN "open" ELSE "freed"
    /\ call' = name
    /\ oss_path' = path
    /\ fetch' = ok
    /\ package' = NoPackage
    /\ result' = NewResult
    /\ ioerr' = FALSE
    /\ mutex' = 0
    /\ UNCHANGED <<failed, tpc, tpkg, snap, janus_oss_io, remote>>

CreateWithOss ==
    /\ session = "freed"
    /\ \E path \in OssPaths, made \in BOOLEAN, ok \in FetchOutcomes :
           Created(janus_whiteboard_create_with_oss(janus_whiteboard_free(WB), path,
                       janus_oss_io, remote, made, ok),
                   "create_with_oss", path, ok)

CreateWithPath ==
    /\ session = "freed"
    /\ \E path \in OssPaths, ok \in FetchOutcomes :
       \E ub \in PageLoopOutcomes(scene_file, page_file) :
           Created(janus_whiteboard_create_with_path(janus_whiteboard_free(WB), path, ub),
                   "create", path, ok)

\* janus_whiteboard_free of a session one of the two functions returned
FreeCreated ==
    /\ session = "open"
    /\ Store(janus_whiteboard_free(WB))
    /\ session' = "freed"
    /\ call' = "free"
    /\ UNCHANGED <<package, result, ioerr, failed, mutex, tpc, tpkg, snap, ossvars>>

NextOss ==
    \/ OssInit
    \/ CreateWithOss
    \/ CreateWithPath
    \/ FreeCreated

SpecOss == InitOss /\ [][NextOss]_vars

\* C25 (fail-closed remote bootstrap): a creation with an oss_path, in which
\* the storage backend is not loaded or the fetch of one of the four remote
\* files fails, returns no session.
C25_FailClosedRemoteBootstrap ==
    [][(/\ call' \in {"create", "create_with_oss"}
        /\ session = "freed"
        /\ oss_path' # NULL
        /\ (janus_oss_io = NULL \/ \E f \in Files : ~fetch'[f]))
       => session' # "open"]_vars

----------------------------------------------------------------------------
\* C26 (no key frame is referred to from outside the table): in every state
\* of an open session the key_frame pointer inside the cur_page copy is NULL
\* or is the key frame its page holds in the table now, that is, it never
\* names a key frame the table has freed.
C26_NoStaleKeyFramePointer ==
    session = "open"
        => \/ cur_page.key_frame = NULL
           \/ /\ HasPage(WB, cur_page.scene, cur_page.page)
              /\ scenes[cur_page.scene].pages[cur_page.page].key_frame
                     = cur_page.key_frame

----------------------------------------------------------------------------
\* C27 (every operation runs to completion): whatever the four files hold,
\* every janus_whiteboard_create and every janus_whiteboard_save_package
\* returns to its caller (the process does not die inside the call) and
\* leaves the mutex released.
C27_EveryCallReturns ==
    [][call' \in {"create", "save_package"}
       => session' # "crashed" /\ mutex' = 0]_vars

----------------------------------------------------------------------------
\* Sessions opened on a data file that other versions of the program wrote:
\* KeyFrame-typed packages, which this version no longer logs, and
\* SwitchScenePage packages anywhere among the draws.

MaxForeignLog == 2

ForeignRecords ==
    {Pkg(KLPackageType_DrawCommand, 0, 0, <<1>>, NULL, NULL),
     Pkg(KLPackageType_DrawCommand, 0, 1, <<1>>, NULL, NULL),
     Pkg(KLPackageType_KeyFrame, 0, 0, <<2>>, NULL, NULL),
     Pkg(KLPackageType_SwitchScenePage, 0, 0, <<>>, NULL, NULL),
     Pkg(KLPackageType_CleanDraw, 0, 0, <<>>, NULL, NULL)}

ForeignDataLogs == SeqsUpTo(ForeignRecords, MaxForeignLog)

InitScan ==
    /\ file \in ForeignDataLogs
    /\ header_file = <<>>
    /\ scene_file = <<PbScene(0, "a", 2)>>
    /\ page_file = <<>>
    /\ scenes = EmptyTable
    /\ cur_page = ZeroPage
    /\ packages = <<>>
    /\ session = "freed"
    /\ call = "none"
    /\ package = NoPackage
    /\ result = NewResult
    /\ ioerr = FALSE
    /\ failed = 0
    /\ mutex = 0
    /\ tpc = [t \in Threads |-> "idle"]
    /\ tpkg = [t \in Threads |-> NoRequest]
    /\ snap = [t \in Threads |-> NULL]
    /\ NoOss

NextScan ==
    \/ Create
    \/ DrawCommand
    \/ SwitchScenePage
    \/ CleanDraw
    \/ ScenePageData
    \/ Done

\* a session created on such a data file, then drawn on and switched
SpecScan == InitScan /\ [][NextScan]_vars

\* a SwitchScenePage or KeyFrame package is nowhere but at index 0
PlaceholderRule(pkgs) ==
    \A i \in 1..Len(pkgs) :
        pkgs[i].type \in {KLPackageType_SwitchScenePage, KLPackageType_KeyFrame}
            => i = 1

\* C28 (placeholder rule of the cache reduction): in every state the cache,
\* and the array a scan of any page fills, hold a SwitchScenePage package or
\* a KeyFrame package at index 0 only (so at most one of them), and reducing
\* a CleanDraw onto the cache leaves it empty.
C28_PlaceholderRule ==
    session = "open"
        => /\ PlaceholderRule(packages)
           /\ \A t \in Targets :
                PlaceholderRule(janus_whiteboard_scene_page_data_l(
                                    WB, t.scene, t.page, <<>>).packages)
           /\ janus_whiteboard_add_pkt_to_packages_l(
                  packages, Pkg(KLPackageType_CleanDraw, cur_page.scene,
                                cur_page.page, <<>>, NULL, NULL)) = <<>>

\* the cache holds a KeyFrame package at index 0 with a draw after it, and a
\* SwitchScenePage record later in the data file was not kept
C28_Witness ==
    /\ session = "open"
    /\ Len(packages) >= 2
    /\ packages[1].type = KLPackageType_KeyFrame
    /\ packages[2].type = KLPackageType_DrawCommand
    /\ \E i \in 1..Len(file) :
         /\ file[i].type = KLPackageType_SwitchScenePage
         /\ file[i].scene = cur_page.scene /\ file[i].page = cur_page.page
    /\ \A i \in 1..Len(packages) : packages[i].type # KLPackageType_SwitchScenePage

----------------------------------------------------------------------------
\* janus_whiteboard_packed_data_l on its own, applied to any array of
\* packages.

MaxPacked == 3

PackedInputs ==
    {Pkg(KLPackageType_DrawCommand, 0, 0, <<1>>, NULL, NULL),
     Pkg(KLPackageType_DrawCommand, 0, 1, <<2, 3>>, NULL, NULL),
     Pkg(KLPackageType_KeyFrame, 1, 0, <<4>>, NULL, NULL),
     Pkg(KLPackageType_SwitchScenePage, 0, 1, <<>>, Some(PbPage(0, 1, 90, 2)), NULL),
     Pkg(KLPackageType_PageChange, 0, 0, <<>>, Some(PbPage(0, 0, 90, 2)), NULL)}

InitPacked ==
    /\ file = <<>>
    /\ header_file = <<>>
    /\ scene_file = <<>>
    /\ page_file = <<>>
    /\ scenes = EmptyTable
    /\ cur_page = [scene |-> 0, page |-> 0, angle |-> 0, scale |-> 1, key_frame |-> NULL]
    /\ packages \in SeqsUpTo(PackedInputs, MaxPacked)
    /\ session = "open"
    /\ call = "none"
    /\ package = NoPackage
    /\ result = NewResult
    /\ ioerr = FALSE
    /\ failed = 0
    /\ mutex = 0
    /\ tpc = [t \in Threads |-> "idle"]
    /\ tpkg = [t \in Threads |-> NoRequest]
    /\ snap = [t \in Threads |-> NULL]
    /\ NoOss

\* janus_whiteboard_packed_data_l(whiteboard->packages, &result)
PackedData ==
    /\ call = "none"
    /\ result' = janus_whiteboard_packed_data_l(packages, NewResult)
    /\ call' = "packed_data"
    /\ UNCHANGED <<file, header_file, scene_file, page_file, scenes, cur_page,
                   packages, session, package, ioerr, failed, mutex, tpc, tpkg,
                   snap, ossvars>>

NextPacked == PackedData

SpecPacked == InitPacked /\ [][NextPacked]_vars

RECURSIVE CommandsInOrder(_)
\* the commands of the packages of a list, first package first
CommandsInOrder(pkgs) ==
    IF pkgs = <<>> THEN <<>>
    ELSE CommandsInOrder(SubSeq(pkgs, 1, Len(pkgs) - 1)) \o pkgs[Len(pkgs)].cmd

\* C29 (pack output shape): for an empty array the command result is a
\* CleanDraw package without commands and there is no key frame result; for
\* a non-empty array it is a DrawCommand package with the scene and page of
\* element 0 and the commands of all elements in array order, and there is a
\* key frame result, element 0 packed on its own, exactly when element 0 is
\* a KeyFrame package.
C29_PackOutputShape ==
    call = "packed_data"
        => /\ result.command_buf # NULL
           /\ LET out == result.command_buf[1]
              IN  IF packages = <<>>
                  THEN /\ out.type = KLPackageType_CleanDraw
                       /\ out.cmd = <<>>
                       /\ result.keyframe_buf = NULL
                  ELSE /\ out.type = KLPackageType_DrawCommand
                       /\ out.scene = packages[1].scene
                       /\ out.page = packages[1].page
                       /\ out.cmd = CommandsInOrder(packages)
                       /\ (result.keyframe_buf # NULL)
                              <=> (packages[1].type = KLPackageType_KeyFrame)
                       /\ result.keyframe_buf # NULL
                              => result.keyframe_buf[1] = packages[1]

\* an array that starts with a KeyFrame package and goes on with draws of
\* another page has been packed
C29_Witness ==
    /\ call = "packed_data"
    /\ Len(packages) = 3
    /\ packages[1].type = KLPackageType_KeyFrame
    /\ packages[2].cmd = <<2, 3>>
    /\ packages[3].cmd = <<1>>
    /\ result.keyframe_buf # NULL
    /\ result.command_buf[1].cmd = <<4, 2, 3, 1>>

----------------------------------------------------------------------------
\* C30 (what installs a key frame): a call installs a new key frame on a
\* page, or appends to the header file, only when its package names that
\* page and (a) is a KeyFrame or CleanDraw package, (b) is a SwitchScenePage
\* whose reloaded cache is empty, or (c) is another package that is logged
\* while the page has no key frame; the header file then grows by exactly
\* that key frame.  A DrawCommand or PageChange package for an existing page
\* that has a key frame appends one record to the data file and leaves the
\* header file and every key frame as they were.

\* the packages that install a key frame on (scene, page) in whiteboard w
KeyFrameTrigger(w, pkg, scene, page) ==
    /\ pkg.scene = scene /\ pkg.page = page
    /\ \/ pkg.type \in {KLPackageType_KeyFrame, KLPackageType_CleanDraw}
       \/ /\ pkg.type = KLPackageType_SwitchScenePage
          /\ janus_whiteboard_scene_page_data_l(w, scene, page, <<>>).packages = <<>>
       \/ /\ pkg.type \in {KLPackageType_DrawCommand, KLPackageType_PageChange}
          /\ ~LiveKeyFrame(w.scenes, scene, page)

\* the pages of tbl2 that hold a key frame they did not hold in tbl1
NewKeyFrames(tbl1, tbl2) ==
    {t \in Targets :
        /\ LiveKeyFrame(tbl2, t.scene, t.page)
        /\ \/ ~LiveKeyFrame(tbl1, t.scene, t.page)
           \/ tbl1[t.scene].pages[t.page].key_frame
                  # tbl2[t.scene].pages[t.page].key_frame}

C30_KeyFrameTriggers ==
    [][(Called /\ call' = "save_package")
       => /\ \A t \in NewKeyFrames(scenes, scenes') :
               /\ KeyFrameTrigger(WB, package', t.scene, t.page)
               /\ header_file' = Append(header_file,
                                        scenes'[t.scene].pages[t.page].key_frame[1])
          /\ header_file' # header_file => NewKeyFrames(scenes, scenes') # {}
          /\ (/\ package'.type \in {KLPackageType_DrawCommand, KLPackageType_PageChange}
              /\ result'.ret = 0
              /\ LiveKeyFrame(scenes, package'.scene, package'.page))
             => /\ Len(file') = Len(file) + 1
                /\ header_file' = header_file
                /\ \A t \in Targets :
                     LiveKeyFrame(scenes, t.scene, t.page)
                         => /\ LiveKeyFrame(scenes', t.scene, t.page)
                            /\ scenes'[t.scene].pages[t.page].key_frame
                                   = scenes[t.scene].pages[t.page].key_frame]_vars

\* a draw on a page that has a key frame has returned: the header file holds
\* that one key frame, the data file one record more than the key frame saw
C30_Witness ==
    /\ call = "save_package"
    /\ package.type = KLPackageType_DrawCommand
    /\ result.ret = 0
    /\ LiveKeyFrame(scenes, package.scene, package.page)
    /\ Len(header_file) = 1
    /\ Len(file) = 2
    /\ scenes[package.scene].pages[package.page].key_frame[1].offset = 0

----------------------------------------------------------------------------
\* C31 (reopen preserves the current pointer): when a session is freed, a
\* session created again from the files it leaves has the (scene, page) in
\* cur_page that the freed session had.
C31_ReopenPreservesCurrent ==
    [][(session = "open" /\ session' = "freed" /\ call' = "free")
       => \A ub \in PageLoopOutcomes(scene_file, page_file) :
            LET c == janus_whiteboard_create(janus_whiteboard_free(WB), ub)
            IN  c.status = "ok"
                    => /\ c.w.cur_page.scene = cur_page.scene
                       /\ c.w.cur_page.page = cur_page.page]_vars

----------------------------------------------------------------------------
\* Sessions that receive the requests of SpecEdge and are freed and created
\* again from their files.
NextEdgeReopen ==
    \/ NextEdge
    \/ Free
    \/ Create

SpecEdgeReopen == Init /\ [][NextEdgeReopen]_vars

\* C32 (reopen preserves the table of scenes): when a session is freed, a
\* session created again from the files it leaves has the same scene
\* indices, the same page_num and source_url for every scene, and for every
\* page the same angle and scale and the same key frame offset, or no key
\* frame where the page had none.
C32_ReopenPreservesScenes ==
    [][(session = "open" /\ session' = "freed" /\ call' = "free")
       => \A ub \in PageLoopOutcomes(scene_file, page_file) :
            LET c == janus_whiteboard_create(janus_whiteboard_free(WB), ub)
            IN  c.status = "ok" => c.w.scenes = scenes]_vars

----------------------------------------------------------------------------
\* C33 (the current pointer is valid once a scene exists): in every state of
\* an open session whose table holds a scene, cur_page names a scene of the
\* table and a page of that scene.
C33_CurrentPointerValid ==
    (session = "open" /\ DOMAIN scenes # {})
        => HasPage(WB, cur_page.scene, cur_page.page)

----------------------------------------------------------------------------
\* C34 (key frames are sound seek points): in every state of an open session
\* and for every page of the table, the records of the data file for that
\* page reduce to the same array whether they are read from the offset of
\* the page's key frame or from offset 0.
C34_KeyFramesAreSoundSeekPoints ==
    session = "open"
        => \A t \in Targets :
             HasPage(WB, t.scene, t.page)
                 => janus_whiteboard_scene_page_data_l(WB, t.scene, t.page, <<>>).packages
                        = ReduceRecords(file, t.scene, t.page, <<>>)

----------------------------------------------------------------------------
\* Packages of every encoded length: a draw whose one command brings the
\* package to MAX_PACKET_CAPACITY bytes, among draws of a few bytes.

FramePackages ==
    {Pkg(KLPackageType_AddScene, 0, 0, <<>>, NULL, Some(PbScene(-1, "a", 2)))}
    \cup {Pkg(KLPackageType_DrawCommand, 0, p, c, NULL, NULL) :
              p \in {0, 1}, c \in {<<1>>, <<LargeCommand>>}}
    \cup {Pkg(KLPackageType_SwitchScenePage, 0, p, <<>>, NULL, NULL) : p \in {0, 1}}
    \cup {Pkg(KLPackageType_ScenePageData, 0, p, <<>>, NULL, NULL) : p \in {0, 1}}

SavePackageFrame == \E pkg \in FramePackages : SavePackage(pkg, IoAllOk)

NextFrame ==
    \/ SavePackageFrame
    \/ Done

\* one session that receives such packages
SpecFrame == Init /\ [][NextFrame]_vars

\* C35 (write/read framing round trip): in every state, reading the data
\* file from its start with janus_whiteboard_read_packet_from_file returns
\* every record save_package appended to it, whatever the record's length;
\* the read never stops before a record of the file.
C35_FramingRoundTrip ==
    ReadRecords(file) = file

----------------------------------------------------------------------------
\* C36 (the cache holds packages of the current page only): in every state
\* of an open session every package of the cache has the scene and the page
\* of the current page.
C36_CacheHoldsCurrentPageOnly ==
    session = "open"
        => \A i \in 1..Len(packages) :
             /\ packages[i].scene = cur_page.scene
             /\ packages[i].page = cur_page.page

\* the data file holds a draw of another page than the current one, written
\* right after a draw of the current page, no switch has been made, and the
\* cache holds packages
C36_Witness ==
    /\ session = "open"
    /\ Len(packages) >= 1
    /\ \E i \in 1..Len(file) :
         /\ i > 1
         /\ file[i].type = KLPackageType_DrawCommand
         /\ HasPage(WB, file[i].scene, file[i].page)
         /\ ~(file[i].scene = cur_page.scene /\ file[i].page = cur_page.page)
         /\ file[i - 1].type = KLPackageType_DrawCommand
         /\ file[i - 1].scene = cur_page.scene /\ file[i - 1].page = cur_page.page
    /\ page_file = <<>>

----------------------------------------------------------------------------
\* C37 (key frame offsets only move forward): in every state the offsets of
\* the header-file records are non-decreasing in file order, so the last
\* record that names a page holds the largest offset recorded for it; and
\* whenever a call replaces the key frame of a page, the offset of the new
\* key frame is greater than or equal to the offset of the one it replaces.
C37_KeyFrameOffsetsMoveForward ==
    /\ [](\A j, k \in 1..Len(header_file) :
            j < k => header_file[j].offset <= header_file[k].offset)
    /\ [](\A t \in Targets :
            LET named == HeaderRecordsOf(t.scene, t.page)
                last == CHOOSE k \in named : \A j \in named : j <= k
            IN  named # {}
                    => \A j \in named :
                         header_file[j].offset <= header_file[last].offset)
    /\ [][(session = "open" /\ session' = "open")
          => \A i \in DOMAIN scenes \cap DOMAIN scenes' :
               \A p \in DOMAIN scenes[i].pages \cap DOMAIN scenes'[i].pages :
                 (scenes[i].pages[p].key_frame # NULL
                    /\ scenes'[i].pages[p].key_frame # NULL)
                     => scenes'[i].pages[p].key_frame[1].offset
                            >= scenes[i].pages[p].key_frame[1].offset]_vars

\* the key frame of page (0,0) has been replaced by one further into the
\* data file, after a key frame of page (0,1) was recorded between the two
C37_Witness ==
    /\ session = "open"
    /\ HasPage(WB, 0, 0)
    /\ \E j, k, n \in 1..Len(header_file) :
         /\ j < n /\ n < k
         /\ j \in HeaderRecordsOf(0, 0) /\ k \in HeaderRecordsOf(0, 0)
         /\ n \in HeaderRecordsOf(0, 1)
         /\ header_file[j].offset < header_file[k].offset
         /\ scenes[0].pages[0].key_frame = Some(header_file[k])

----------------------------------------------------------------------------
\* Packages of the six types janus_whiteboard_save_package does not support,
\* with what a sender may put in them, sent to a session that also receives
\* scenes, draws and switches.

InertPackages ==
    {Pkg(ty, 0, p, c, NULL, NULL) :
        ty \in {KLPackageType_None, KLPackageType_KeyFrame,
                KLPackageType_EnableUserDraw, KLPackageType_DeleteScene,
                KLPackageType_ModifyScene, KLPackageType_SceneOrderChange},
        p \in {0, 1}, c \in {<<>>, <<1>>}}
    \cup {Pkg(KLPackageType_ModifyScene, 0, 0, <<>>, NULL, Some(PbScene(0, "b", 1))),
          Pkg(KLPackageType_DeleteScene, 0, 0, <<>>, NULL, Some(PbScene(0, "a", 2))),
          Pkg(KLPackageType_KeyFrame, 0, 1, <<1>>, Some(PbPage(0, 1, 90, 2)), NULL)}

SavePackageInert == \E pkg \in InertPackages : SavePackage(pkg, IoAllOk)

NextInert ==
    \/ SavePackageInert
    \/ SavePackageFrame
    \/ Done

SpecInert == Init /\ [][NextInert]_vars

----------------------------------------------------------------------------
\* Shutdown.  One thread runs janus_whiteboard_free while the others call
\* janus_whiteboard_save_package and janus_whiteboard_add_scene on the same
\* session.  janus_whiteboard_free runs janus_whiteboard_close (lock, sizes
\* logged, unlock), takes the mutex again, closes the four files and sets
\* their fields to NULL, drops the table and the cache, releases the mutex
\* and then hands the structure, mutex included, to g_free.  session is
\* "closed" between the fclose calls and g_free, and "freed" after g_free.

\* janus_whiteboard_free passed its NULL test
FreeEnter(t) ==
    /\ session = "open"
    /\ tpc[t] = "idle"
    /\ \A u \in Threads : tpc[u] \notin {"free_called", "free_closed", "free_locked",
                                         "free_unlocked"}
    /\ tpc' = [tpc EXCEPT ![t] = "free_called"]
    /\ UNCHANGED <<file, header_file, scene_file, page_file, scenes, cur_page,
                   packages, session, call, package, result, ioerr, failed, mutex,
                   tpkg, snap, ossvars>>

\* janus_whiteboard_close, from its lock to its unlock
FreeClose(t) ==
    /\ tpc[t] = "free_called"
    /\ mutex = 0
    /\ tpc' = [tpc EXCEPT ![t] = "free_closed"]
    /\ UNCHANGED <<file, header_file, scene_file, page_file, scenes, cur_page,
                   packages, session, call, package, result, ioerr, failed, mutex,
                   tpkg, snap, ossvars>>

\* janus_mutex_lock_nodebug in janus_whiteboard_free
FreeLock(t) ==
    /\ tpc[t] = "free_closed"
    /\ mutex = 0
    /\ mutex' = t
    /\ tpc' = [tpc EXCEPT ![t] = "free_locked"]
    /\ UNCHANGED <<file, header_file, scene_file, page_file, scenes, cur_page,
                   packages, session, call, package, result, ioerr, failed,
                   tpkg, snap, ossvars>>

\* the fclose calls, the unrefs and janus_mutex_unlock_nodebug
FreeRelease(t) ==
    /\ tpc[t] = "free_locked"
    /\ Store(janus_whiteboard_free(WB))
    /\ session' = "closed"
    /\ mutex' = 0
    /\ tpc' = [tpc EXCEPT ![t] = "free_unlocked"]
    /\ UNCHANGED <<call, package, result, ioerr, failed, tpkg, snap, ossvars>>

\* g_free(whiteboard)
FreeStruct(t) ==
    /\ tpc[t] = "free_unlocked"
    /\ session' = "freed"
    /\ tpc' = [tpc EXCEPT ![t] = "idle"]
    /\ UNCHANGED <<file, header_file, scene_file, page_file, scenes, cur_page,
                   packages, call, package, result, ioerr, failed, mutex,
                   tpkg, snap, ossvars>>

\* a caller that entered before the files were closed takes the mutex after
\* janus_whiteboard_free released it
LockClosed(t) ==
    /\ session = "closed"
    /\ tpc[t] = "called"
    /\ mutex = 0
    /\ mutex' = t
    /\ tpc' = [tpc EXCEPT ![t] = "locked"]
    /\ snap' = [snap EXCEPT ![t] = Some(WB)]
    /\ UNCHANGED <<file, header_file, scene_file, page_file, scenes, cur_page,
                   packages, session, call, package, result, ioerr, failed, tpkg,
                   ossvars>>

\* under the mutex the caller finds whiteboard->file NULL, unlocks and
\* returns the initial result
LeaveClosed(t) ==
    /\ session = "closed"
    /\ tpc[t] = "locked"
    /\ result' = NewResult
    /\ call' = tpkg[t].fn
    /\ mutex' = 0
    /\ tpc' = [tpc EXCEPT ![t] = "idle"]
    /\ tpkg' = [tpkg EXCEPT ![t] = NoRequest]
    /\ snap' = [snap EXCEPT ![t] = NULL]
    /\ UNCHANGED <<file, header_file, scene_file, page_file, scenes, cur_page,
                   packages, session, package, ioerr, failed, ossvars>>

\* the next step of a caller inside the function once g_free has run: it
\* locks the mutex of, or reads whiteboard->file from and unlocks the mutex
\* of, memory that was released
TouchReleased(t) ==
    /\ session = "freed"
    /\ tpc[t] \in {"called", "locked"}
    /\ tpc' = [tpc EXCEPT ![t] = "released"]
    /\ UNCHANGED <<file, header_file, scene_file, page_file, scenes, cur_page,
                   packages, session, call, package, result, ioerr, failed, mutex,
                   tpkg, snap, ossvars>>

\* what the access to released memory leads to: the process dies, or the
\* memory still reads as the closed session and the caller returns the
\* initial result
AfterRelease(t) ==
    /\ tpc[t] = "released"
    /\ \/ session' = "crashed" /\ UNCHANGED result
       \/ session' = session /\ result' = NewResult
    /\ tpc' = [tpc EXCEPT ![t] = "idle"]
    /\ tpkg' = [tpkg EXCEPT ![t] = NoRequest]
    /\ snap' = [snap EXCEPT ![t] = NULL]
    /\ UNCHANGED <<file, header_file, scene_file, page_file, scenes, cur_page,
                   packages, call, package, ioerr, failed, mutex, ossvars>>

NextShutdown ==
    \E t \in Threads :
        \/ Enter(t) \/ Lock(t) \/ Leave(t)
        \/ FreeEnter(t) \/ FreeClose(t) \/ FreeLock(t) \/ FreeRelease(t)
        \/ FreeStruct(t)
        \/ LockClosed(t) \/ LeaveClosed(t)
        \/ TouchReleased(t) \/ AfterRelease(t)

\* callers and one janus_whiteboard_free on one session
SpecShutdown == Init /\ [][NextShutdown]_vars

\* C39 (shutdown race): no call of save_package locks the mutex of, or reads
\* or writes fields of, a session structure that janus_whiteboard_free has
\* released; and a call that gets the mutex after the files were closed
\* returns ret < 0 and appends to none of the four files.
C39_ShutdownRace ==
    /\ [](\A t \in Threads : tpc[t] # "released")
    /\ [][\A t \in Threads :
            (tpc[t] = "locked" /\ tpc'[t] = "idle" /\ session # "open")
                => /\ result'.ret < 0
                   /\ UNCHANGED <<file, header_file, scene_file, page_file>>]_vars

====
